---------------------------- MODULE Spec2Model ----------------------------
(***************************************************************************)
(* A model of the skift kernel's system-call boundary (syscalls.c): the    *)
(* user-pointer validator, the table-driven dispatcher, the sys_* handlers  *)
(* and the task / shared-memory / messaging operations they delegate to.   *)
(*                                                                         *)
(* Machine words are 32 bits wide.  A word is kept as the signed value of  *)
(* its bit pattern (-2^31 .. 2^31-1); unsigned arithmetic and comparison   *)
(* are done on its two 16-bit halves, so that wrap-around is exact.        *)
(***************************************************************************)
EXTENDS Integers, Sequences, FiniteSets, TLC

VARIABLES
    vptr, vsize, vresult,   \* syscall_validate_ptr applied on its own: inputs and verdict
    layer,                  \* the fields of a DialogLayer
    uicall,                 \* the latest call on the DialogLayer and what it reached
    atomic,                 \* depth of the atomic sections entered and not left
    section,                \* the cancel or wakeup call that is inside its ATOMIC block
    ticks,                  \* the scheduler's tick counter
    running,                \* sheduler_running_id(): the task executing the current syscall
    tasks,                  \* the task table: pid -> task
    context,                \* pid -> processor_context_t of the task's latest syscall
    outcome,                \* what the handler invoked last did: return value, operations
                            \* called, user memory touched
    dispatch,               \* the latest syscall_dispatcher activation: task, id, handler, log
    step,                   \* the kind of the latest step: init, syscall, schedule, resume, tick
    regions, nextShm,       \* the shared-memory registry and its id counter
    aspace,                 \* pid -> the task's address space (set of mappings)
    umem,                   \* pid -> words the kernel wrote out to the task's memory
    shmNet, shmZeroed,      \* per region id: successful acquires minus successful
                            \* releases, and how many times its count reached zero
    pending, nextCorr,      \* requests awaiting a response, and the correlation id counter
    mailbox,                \* pid -> FIFO of pending messages
    reqlog,                 \* per correlation id: who asked, when, and how it completed
    exitlog,                \* pid of a Zombie -> the code its exit or cancel call supplied
    woken,                  \* the tasks a wakeup call made Ready and that did not run yet
    sleepdue,               \* pid of a task inside sleep -> the tick its duration ends
    sentlog, gotlog,        \* pid -> the messages its mailbox was sent, and the
                            \* messages its receive calls returned, in order
    members                 \* <<pid, channel>>: subscribe calls not undone by unsubscribe

validateVars == <<vptr, vsize, vresult>>
shmVars == <<regions, nextShm, aspace, shmNet, shmZeroed>>
msgVars == <<pending, nextCorr, mailbox, reqlog>>
schedVars == <<exitlog, woken, sleepdue>>
mailVars == <<sentlog, gotlog, members>>
kernelVars == <<ticks, running, tasks, context, outcome, dispatch, step, umem, shmVars,
               msgVars, schedVars, mailVars>>
uiVars == <<layer, uicall>>
atomicVars == <<atomic, section>>
vars == <<validateVars, kernelVars, uiVars, atomicVars>>

----------------------------------------------------------------------------
(* Bounds of the model *)

MaxTasks == 3        \* size of the task table explored
MaxShmTasks == 2     \* tasks ever launched while the registry is explored
MaxRegions == 2      \* shared-memory regions ever allocated
MaxRefs == 3         \* cap on one region's reference count
MaxPages == 2        \* pages of one address space available to shared memory
MaxTicks == 2        \* the tick counter stops here
MaxCorr == 2         \* correlation ids ever allocated
MaxSends == 3
MaxHandles == 2
MaxOffset == 1        \* messages sent or broadcast while mailboxes are explored

Pids == 0 .. MaxTasks - 1

----------------------------------------------------------------------------
(* 32-bit words *)

U16 == 2 ^ 16
MinInt32 == -2147483647 - 1
MaxInt32 == -(MinInt32 + 1)

Hi(w) == (w \div U16) % U16
Lo(w) == w % U16

\* the word whose halves are h and l
Word(h, l) == IF h >= U16 \div 2 THEN (h - U16) * U16 + l ELSE h * U16 + l

\* a + b on uintptr_t / size_t: modulo 2^32
AddU32(a, b) ==
    LET lo == Lo(a) + Lo(b)
        hi == Hi(a) + Hi(b) + (lo \div U16)
    IN  Word(hi % U16, lo % U16)

\* a >= b on unsigned words
GeqU32(a, b) == Hi(a) > Hi(b) \/ (Hi(a) = Hi(b) /\ Lo(a) >= Lo(b))

----------------------------------------------------------------------------
(* Address validator *)

Watermark == 1048576        \* 0x100000

\* the validator without its wrap-around test
syscall_validate_ptr_nowrap(ptr, size) ==
    /\ GeqU32(ptr, Watermark)
    /\ GeqU32(AddU32(ptr, size), Watermark)

syscall_validate_ptr(ptr, size) ==
    /\ GeqU32(ptr, Watermark)
    /\ GeqU32(AddU32(ptr, size), Watermark)
    /\ GeqU32(AddU32(ptr, size), ptr)

\* (base, length) pairs around every boundary of the check
ValidateBases ==
    {0, 1, Watermark - 1, Watermark, Watermark + 1, MaxInt32, MinInt32,
     -Watermark - 1, -Watermark, -4, -2, -1}
ValidateSizes ==
    {0, 1, 4, Watermark - 1, Watermark, Watermark + 1, MaxInt32, MinInt32,
     -Watermark, -Watermark + 1, -2, -1}

InitValidate == vptr = 0 /\ vsize = 0 /\ vresult = "none"

Validate ==
    /\ vptr' \in ValidateBases
    /\ vsize' \in ValidateSizes
    /\ vresult' = IF syscall_validate_ptr(vptr', vsize') THEN "valid" ELSE "invalid"


----------------------------------------------------------------------------
(* Error codes (libsystem/error.h).  Only ERR_SUCCESS = 0, the sign of a   *)
(* code and the codes being distinct matter to the model.                   *)

ERR_SUCCESS == 0
ERR_BAD_ADDRESS == 1
ERR_FUNCTION_NOT_IMPLEMENTED == 2
ERR_NOT_FOUND == 3
ERR_INVALID_STATE == 4
ERR_TIMEOUT == 5
ERR_CANCELED == 6

----------------------------------------------------------------------------
(* Syscall identifiers and the dispatch table *)

\* SYSCALL_LIST: the enumeration Syscall, in order; identifier = position - 1
SYSCALL_LIST ==
    << "SYS_PROCESS_THIS", "SYS_PROCESS_LAUNCH", "SYS_PROCESS_EXIT",
       "SYS_PROCESS_CANCEL", "SYS_PROCESS_SLEEP", "SYS_PROCESS_WAKEUP",
       "SYS_PROCESS_WAIT", "SYS_PROCESS_GET_CWD", "SYS_PROCESS_SET_CWD",
       "SYS_PROCESS_MAP", "SYS_PROCESS_UNMAP", "SYS_PROCESS_ALLOC",
       "SYS_PROCESS_FREE",
       "SYS_SHARED_MEMORY_ALLOC", "SYS_SHARED_MEMORY_ACQUIRE",
       "SYS_SHARED_MEMORY_RELEASE",
       "SYS_MESSAGING_SEND", "SYS_MESSAGING_BROADCAST", "SYS_MESSAGING_REQUEST",
       "SYS_MESSAGING_RECEIVE", "SYS_MESSAGING_RESPOND",
       "SYS_MESSAGING_SUBSCRIBE", "SYS_MESSAGING_UNSUBSCRIBE",
       "SYS_FILESYSTEM_MKDIR", "SYS_FILESYSTEM_MKPIPE", "SYS_FILESYSTEM_LINK",
       "SYS_FILESYSTEM_UNLINK", "SYS_FILESYSTEM_RENAME",
       "SYS_SYSTEM_GET_INFO", "SYS_SYSTEM_GET_STATUS", "SYS_SYSTEM_GET_TIME",
       "SYS_SYSTEM_GET_TICKS",
       "SYS_HANDLE_OPEN", "SYS_HANDLE_CLOSE", "SYS_HANDLE_SELECT",
       "SYS_HANDLE_READ", "SYS_HANDLE_WRITE", "SYS_HANDLE_CALL",
       "SYS_HANDLE_SEEK", "SYS_HANDLE_TELL", "SYS_HANDLE_STAT",
       "SYS_HANDLE_CONNECT", "SYS_HANDLE_ACCEPT", "SYS_HANDLE_SEND",
       "SYS_HANDLE_RECEIVE", "SYS_HANDLE_PAYLOAD", "SYS_HANDLE_DISCARD" >>

SYSCALL_COUNT == Len(SYSCALL_LIST)

\* the value of an enumerator
Sys(name) == (CHOOSE i \in 1 .. SYSCALL_COUNT : SYSCALL_LIST[i] = name) - 1

SYS_PROCESS_LAUNCH == Sys("SYS_PROCESS_LAUNCH")
SYS_PROCESS_EXIT == Sys("SYS_PROCESS_EXIT")
SYS_PROCESS_CANCEL == Sys("SYS_PROCESS_CANCEL")
SYS_PROCESS_SLEEP == Sys("SYS_PROCESS_SLEEP")
SYS_PROCESS_WAKEUP == Sys("SYS_PROCESS_WAKEUP")
SYS_PROCESS_WAIT == Sys("SYS_PROCESS_WAIT")
SYS_PROCESS_MAP == Sys("SYS_PROCESS_MAP")
SYS_PROCESS_UNMAP == Sys("SYS_PROCESS_UNMAP")
SYS_PROCESS_ALLOC == Sys("SYS_PROCESS_ALLOC")
SYS_PROCESS_FREE == Sys("SYS_PROCESS_FREE")
SYS_SHARED_MEMORY_ALLOC == Sys("SYS_SHARED_MEMORY_ALLOC")
SYS_SHARED_MEMORY_ACQUIRE == Sys("SYS_SHARED_MEMORY_ACQUIRE")
SYS_SHARED_MEMORY_RELEASE == Sys("SYS_SHARED_MEMORY_RELEASE")
SYS_MESSAGING_SEND == Sys("SYS_MESSAGING_SEND")
SYS_MESSAGING_BROADCAST == Sys("SYS_MESSAGING_BROADCAST")
SYS_MESSAGING_REQUEST == Sys("SYS_MESSAGING_REQUEST")
SYS_MESSAGING_RECEIVE == Sys("SYS_MESSAGING_RECEIVE")
SYS_MESSAGING_RESPOND == Sys("SYS_MESSAGING_RESPOND")
SYS_MESSAGING_SUBSCRIBE == Sys("SYS_MESSAGING_SUBSCRIBE")
SYS_MESSAGING_UNSUBSCRIBE == Sys("SYS_MESSAGING_UNSUBSCRIBE")
SYS_HANDLE_OPEN == Sys("SYS_HANDLE_OPEN")
SYS_HANDLE_CLOSE == Sys("SYS_HANDLE_CLOSE")
SYS_HANDLE_SELECT == Sys("SYS_HANDLE_SELECT")
SYS_HANDLE_READ == Sys("SYS_HANDLE_READ")
SYS_HANDLE_WRITE == Sys("SYS_HANDLE_WRITE")
SYS_HANDLE_SEEK == Sys("SYS_HANDLE_SEEK")
SYS_HANDLE_TELL == Sys("SYS_HANDLE_TELL")
SYS_HANDLE_STAT == Sys("SYS_HANDLE_STAT")
SYS_HANDLE_CONNECT == Sys("SYS_HANDLE_CONNECT")
SYS_HANDLE_ACCEPT == Sys("SYS_HANDLE_ACCEPT")

NULL == "NULL"

\* static int (*syscalls[__SYSCALL_COUNT])(): the designated initialisers; an
\* identifier without one holds NULL
syscalls ==
    [ id \in 0 .. SYSCALL_COUNT - 1 |->
        LET name == SYSCALL_LIST[id + 1] IN
        CASE name = "SYS_PROCESS_THIS" -> "sys_process_this"
          [] name = "SYS_PROCESS_LAUNCH" -> "sys_process_launch"
          [] name = "SYS_PROCESS_EXIT" -> "sys_process_exit"
          [] name = "SYS_PROCESS_CANCEL" -> "sys_process_cancel"
          [] name = "SYS_PROCESS_SLEEP" -> "sys_process_sleep"
          [] name = "SYS_PROCESS_WAKEUP" -> "sys_process_wakeup"
          [] name = "SYS_PROCESS_WAIT" -> "sys_process_wait"
          [] name = "SYS_PROCESS_GET_CWD" -> "sys_process_get_cwd"
          [] name = "SYS_PROCESS_SET_CWD" -> "sys_process_set_cwd"
          [] name = "SYS_PROCESS_MAP" -> "sys_process_map"
          [] name = "SYS_PROCESS_UNMAP" -> "sys_process_unmap"
          [] name = "SYS_PROCESS_ALLOC" -> "sys_process_alloc"
          [] name = "SYS_PROCESS_FREE" -> "sys_process_free"
          [] name = "SYS_SHARED_MEMORY_ALLOC" -> "sys_shared_memory_alloc"
          [] name = "SYS_SHARED_MEMORY_ACQUIRE" -> "sys_shared_memory_acquire"
          [] name = "SYS_SHARED_MEMORY_RELEASE" -> "sys_shared_memory_release"
          [] name = "SYS_MESSAGING_SEND" -> "sys_messaging_send"
          [] name = "SYS_MESSAGING_BROADCAST" -> "sys_messaging_broadcast"
          [] name = "SYS_MESSAGING_REQUEST" -> "sys_messaging_request"
          [] name = "SYS_MESSAGING_RECEIVE" -> "sys_messaging_receive"
          [] name = "SYS_MESSAGING_RESPOND" -> "sys_messaging_respond"
          [] name = "SYS_MESSAGING_SUBSCRIBE" -> "sys_messaging_subscribe"
          [] name = "SYS_MESSAGING_UNSUBSCRIBE" -> "sys_messaging_unsubscribe"
          [] name = "SYS_FILESYSTEM_MKDIR" -> "sys_filesystem_mkdir"
          [] name = "SYS_FILESYSTEM_MKPIPE" -> "sys_filesystem_mkpipe"
          [] name = "SYS_FILESYSTEM_LINK" -> "sys_filesystem_link"
          [] name = "SYS_FILESYSTEM_UNLINK" -> "sys_filesystem_unlink"
          [] name = "SYS_FILESYSTEM_RENAME" -> "sys_filesystem_rename"
          [] name = "SYS_SYSTEM_GET_INFO" -> "sys_system_get_info"
          [] name = "SYS_SYSTEM_GET_STATUS" -> "sys_system_get_status"
          [] name = "SYS_SYSTEM_GET_TIME" -> "sys_system_get_time"
          [] name = "SYS_SYSTEM_GET_TICKS" -> "sys_system_get_ticks"
          [] name = "SYS_HANDLE_OPEN" -> "sys_handle_open"
          [] name = "SYS_HANDLE_CLOSE" -> "sys_handle_close"
          [] name = "SYS_HANDLE_SELECT" -> "sys_handle_select"
          [] name = "SYS_HANDLE_READ" -> "sys_handle_read"
          [] name = "SYS_HANDLE_WRITE" -> "sys_handle_write"
          [] name = "SYS_HANDLE_CALL" -> "sys_handle_call"
          [] name = "SYS_HANDLE_SEEK" -> "sys_handle_seek"
          [] name = "SYS_HANDLE_TELL" -> "sys_handle_tell"
          [] name = "SYS_HANDLE_STAT" -> "sys_handle_stat"
          [] name = "SYS_HANDLE_CONNECT" -> "sys_handle_connect"
          [] name = "SYS_HANDLE_ACCEPT" -> "sys_handle_accept"
          [] name = "SYS_HANDLE_SEND" -> "sys_handle_send"
          [] name = "SYS_HANDLE_RECEIVE" -> "sys_handle_receive"
          [] name = "SYS_HANDLE_PAYLOAD" -> "sys_handle_payload"
          [] name = "SYS_HANDLE_DISCARD" -> "sys_handle_discard"
          [] OTHER -> NULL ]

\* the lookup without its range test: any identifier indexes the table
syscall_get_handler_unchecked(syscall) ==
    IF syscall \in DOMAIN syscalls THEN syscalls[syscall] ELSE "sys_process_this"

syscall_get_handler(syscall) ==
    IF syscall >= 0 /\ syscall < SYSCALL_COUNT
    THEN syscalls[syscall]
    ELSE NULL

\* the logger_error line syscall_get_handler emits, if any
syscall_get_handler_log(syscall) ==
    IF syscall >= 0 /\ syscall < SYSCALL_COUNT
    THEN IF syscalls[syscall] = NULL THEN << <<"Syscall not implemented">> >> ELSE << >>
    ELSE << <<"Unknow syscall">> >>

----------------------------------------------------------------------------
(* Kernel state *)

SizeofInt == 4              \* sizeof(int), sizeof(uint), sizeof(size_t) on i386
SizeofLaunchpad == 64       \* sizeof(Launchpad)
SizeofFileState == 8        \* sizeof(FileState)
SizeofSelectEvent == 4      \* sizeof(SelectEvent)
SizeofMessage == 16         \* sizeof(message_t)

NoWait == [kind |-> "none", corr |-> -1, pid |-> -1, until |-> -1]
FreeTask == [state |-> "Free", exitcode |-> 0, insys |-> FALSE, wake |-> 0, wait |-> NoWait,
             subs |-> {}, handles |-> {}]
ReadyTask == [FreeTask EXCEPT !.state = "Ready"]

Live(t) == t \in Pids /\ tasks[t].state \in {"Ready", "Blocked"}

\* a task executing user code: it may trap into the kernel
InUserMode(t) == tasks[t].state = "Ready" /\ ~tasks[t].insys

Frame(a, b, c, d, si, di) ==
    [eax |-> a, ebx |-> b, ecx |-> c, edx |-> d, esi |-> si, edi |-> di]

NoFrame == Frame(0, 0, 0, 0, 0, 0)

\* user memory as a syscall finds it: two message buffers
UserBufA == Watermark + 4096
UserBufB == Watermark + 8192
MsgPtrs == {UserBufA, UserBufB}
Msgs == [to : Pids, corr : 0 .. MaxCorr]
JunkMsg == [to |-> 0, corr |-> 0]
UserMemories == {[p \in MsgPtrs |-> IF p = UserBufA THEN m ELSE JunkMsg] : m \in Msgs}
ReadMsg(mem, ptr) == IF ptr \in DOMAIN mem THEN mem[ptr] ELSE JunkMsg

\* a function with one more point
Put(f, k, v) == [x \in (DOMAIN f) \cup {k} |-> IF x = k THEN v ELSE f[x]]
\* a function with one point less
Drop(f, k) == [x \in (DOMAIN f) \ {k} |-> f[x]]

domainVars == <<tasks, regions, nextShm, aspace, umem, pending, nextCorr, mailbox>>

\* outcome and dispatch of a step in which the dispatcher did not run
NoOutcome == [returned |-> TRUE, value |-> 0, failed |-> FALSE,
              calls |-> {}, uaccess |-> {}, handed |-> {}]
NoDispatch == [task |-> -1, syscall |-> 0, handler |-> NULL, log |-> << >>,
               context |-> NoFrame, mem |-> [p \in MsgPtrs |-> JunkMsg]]

InitKernel ==
    /\ ticks = 0
    /\ running = 0
    /\ tasks = [t \in Pids |-> IF t = 0 THEN ReadyTask ELSE FreeTask]
    /\ context = [t \in Pids |-> NoFrame]
    /\ outcome = NoOutcome
    /\ dispatch = NoDispatch
    /\ step = "init"
    /\ regions = << >>
    /\ nextShm = 0
    /\ aspace = [t \in Pids |-> {}]
    /\ umem = [t \in Pids |-> << >>]
    /\ shmNet = << >>
    /\ shmZeroed = << >>
    /\ pending = << >>
    /\ nextCorr = 0
    /\ mailbox = [t \in Pids |-> << >>]
    /\ reqlog = << >>
    /\ exitlog = << >>
    /\ woken = {}
    /\ sleepdue = << >>
    /\ sentlog = [t \in Pids |-> << >>]
    /\ gotlog = [t \in Pids |-> << >>]
    /\ members = {}

NoTask == -1

\* libsystem/atomic.h: ATOMIC(code) is atomic_begin(); code; atomic_end(); and
\* the scheduler takes no decision while the depth is above zero
atomic_begin == atomic' = atomic + 1

\* a section end that leaves the depth as it is
atomic_end_kept == atomic' = atomic

atomic_end == atomic' = atomic - 1

Preemptible == atomic = 0

NoSection == [task |-> NoTask, frame |-> NoFrame, depth |-> 0, found |-> NoTask]

InitAtomic == atomic = 0 /\ section = NoSection

\* Opt<Child>: the empty set is NONE, a present value is the set of it
NoCall == [op |-> "new", arg |-> {}, reached |-> {}, applied |-> {}, deref |-> FALSE]

\* DialogLayer(Child child): no dialog, nothing pending, the child attached
InitUi ==
    /\ layer = [_dialog |-> {}, _shouldShow |-> {}, _shouldClose |-> FALSE,
                _opacity |-> 0, attached |-> {"child"}, relayout |-> FALSE]
    /\ uicall = NoCall

Init == InitValidate /\ InitKernel /\ InitUi /\ InitAtomic

----------------------------------------------------------------------------
(* How a handler leaves: with a value, with an error, or suspended *)

\* calls: the kernel operations invoked; ua: the user ranges read or written
Return(v, calls, ua) ==
    outcome' = [returned |-> TRUE, value |-> v, failed |-> FALSE,
                calls |-> calls, uaccess |-> ua, handed |-> {}]

Fail(v, calls, ua) ==
    outcome' = [returned |-> TRUE, value |-> v, failed |-> TRUE,
                calls |-> calls, uaccess |-> ua, handed |-> {}]

Suspend(calls, ua) ==
    outcome' = [returned |-> FALSE, value |-> 0, failed |-> FALSE,
                calls |-> calls, uaccess |-> ua, handed |-> {}]

\* A kernel operation this model leaves open (its code is outside syscalls.c): it
\* is called with the user ranges `handed` to it, and succeeds or fails.  Below
\* SYS_HANDLE_OPEN an error is a negative code, from SYS_HANDLE_OPEN on a
\* positive one (the two logging branches of syscall_dispatcher).
Collaborator(op, handed) ==
    /\ \E r \in {ERR_SUCCESS, 1, -ERR_NOT_FOUND} :
          outcome' = [returned |-> TRUE, value |-> r, failed |-> r < 0,
                      calls |-> {<<op>>}, uaccess |-> {}, handed |-> handed]
    /\ UNCHANGED domainVars

HandleCollaborator(op, handed) ==
    /\ \E r \in {ERR_SUCCESS, ERR_NOT_FOUND} :
          outcome' = [returned |-> TRUE, value |-> r, failed |-> r # ERR_SUCCESS,
                      calls |-> {<<op>>}, uaccess |-> {}, handed |-> handed]
    /\ UNCHANGED domainVars

----------------------------------------------------------------------------
(* Scheduler and task table (tasking): launch and exit *)

\* the mappings of an address space cover these pages
UsedPages(as) == UNION {m.base .. m.base + m.count - 1 : m \in as}

Fits(as, base, count) ==
    /\ count >= 1
    /\ base + count <= MaxPages
    /\ (base .. base + count - 1) \cap UsedPages(as) = {}

HasRoom(as, count) == count <= MaxPages /\ \E b \in 0 .. MaxPages - 1 : Fits(as, b, count)

\* the address chosen for a new mapping: the lowest that fits
ChooseBase(as, count) ==
    CHOOSE b \in 0 .. MaxPages - 1 :
        /\ Fits(as, b, count)
        /\ \A c \in 0 .. b - 1 : ~Fits(as, c, count)

\* the tasks a region is attached to
Attached(id) == {t \in Pids : \E m \in aspace[t] : m.region = id}

\* how many mappings of region id task t holds
Held(t, id) == Cardinality({m \in aspace[t] : m.region = id})

\* the registry after task t released every mapping it holds: one reference each
RegionsWithout(t) ==
    LET dec == [id \in DOMAIN regions |->
                   [regions[id] EXCEPT !.refcount = @ - Held(t, id)]]
    IN  [id \in {i \in DOMAIN regions : dec[i].refcount > 0} |-> dec[id]]

\* the tasks blocked in wait(t)
WaitersOf(t) ==
    {u \in Pids : tasks[u].insys /\ tasks[u].wait.kind = "wait" /\ tasks[u].wait.pid = t}

\* the task table once t is Zombie with exit code `code`: a call t was blocked
\* in resumes with `reason`, and the tasks blocked in wait(t) are made Ready
Died(t, code, reason) ==
    [u \in Pids |->
        IF u = t
        THEN [FreeTask EXCEPT !.state = "Zombie", !.exitcode = code, !.wake = reason]
        ELSE IF u \in WaitersOf(t) /\ tasks[u].state = "Blocked"
        THEN [tasks[u] EXCEPT !.state = "Ready", !.wake = ERR_SUCCESS]
        ELSE tasks[u]]

\* what a dead task owned goes: its address space, mailbox and pending requests
Reclaim(t) ==
    /\ regions' = RegionsWithout(t)
    /\ aspace' = [aspace EXCEPT ![t] = {}]
    /\ mailbox' = [mailbox EXCEPT ![t] = << >>]
    /\ pending' = [c \in {d \in DOMAIN pending : pending[d].requester # t} |-> pending[c]]
    /\ UNCHANGED <<nextShm, umem, nextCorr>>

\* the task becomes Zombie; its address space, mailbox and pending requests go
Terminate(t, code) ==
    /\ tasks' = Died(t, code, ERR_SUCCESS)
    /\ Reclaim(t)

task_launch(parent, launchpad) ==
    /\ \E p \in Pids :
          /\ tasks[p].state = "Free"
          /\ \A q \in 0 .. p - 1 : tasks[q].state # "Free"
          /\ tasks' = [tasks EXCEPT ![p] = ReadyTask]
          /\ Return(p, {<<"task_launch">>}, {<<launchpad, SizeofLaunchpad>>})
    /\ UNCHANGED <<regions, nextShm, aspace, umem, pending, nextCorr, mailbox>>

task_exit(code) ==
    /\ Terminate(running, code)
    /\ Suspend({<<"task_exit">>}, {})


task_getbyid_unchecked(id) == IF id \in Pids THEN id ELSE NoTask

\* the task with that id, if the table holds one
task_getbyid(id) == IF id \in Pids /\ tasks[id].state # "Free" THEN id ELSE NoTask

\* cancel that hides the cancellation from a call it interrupts
task_cancel_quiet(task, exitvalue) ==
    IF task = NoTask
    THEN /\ Fail(-ERR_NOT_FOUND, {<<"task_cancel">>}, {})
         /\ UNCHANGED domainVars
    ELSE IF tasks[task].state = "Zombie"
    THEN /\ Fail(-ERR_INVALID_STATE, {<<"task_cancel">>}, {})
         /\ UNCHANGED domainVars
    ELSE /\ tasks' = Died(task, exitvalue, ERR_SUCCESS)
         /\ Reclaim(task)
         /\ Return(ERR_SUCCESS, {<<"task_cancel">>}, {})

\* a call the target is blocked in is interrupted with the reason ERR_CANCELED
task_cancel(task, exitvalue) ==
    IF task = NoTask
    THEN /\ Fail(-ERR_NOT_FOUND, {<<"task_cancel">>}, {})
         /\ UNCHANGED domainVars
    ELSE IF tasks[task].state = "Zombie"
    THEN /\ Fail(-ERR_INVALID_STATE, {<<"task_cancel">>}, {})
         /\ UNCHANGED domainVars
    ELSE /\ tasks' = Died(task, exitvalue,
                          IF tasks[task].insys THEN -ERR_CANCELED ELSE ERR_SUCCESS)
         /\ Reclaim(task)
         /\ Return(ERR_SUCCESS, {<<"task_cancel">>}, {})

task_sleep(t, time) ==
    IF time <= 0
    THEN /\ Return(ERR_SUCCESS, {<<"task_sleep">>}, {})
         /\ UNCHANGED domainVars
    ELSE /\ ticks + time <= MaxTicks
         /\ tasks' = [tasks EXCEPT ![t] = [@ EXCEPT !.state = "Blocked", !.insys = TRUE,
                                             !.wait = [NoWait EXCEPT !.kind = "sleep",
                                                                      !.until = ticks + time]]]
         /\ Suspend({<<"task_sleep">>}, {})
         /\ UNCHANGED <<regions, nextShm, aspace, umem, pending, nextCorr, mailbox>>

task_wakeup(task) ==
    IF task = NoTask
    THEN /\ Fail(-ERR_NOT_FOUND, {<<"task_wakeup">>}, {})
         /\ UNCHANGED domainVars
    ELSE IF tasks[task].state # "Blocked"
    THEN /\ Return(ERR_SUCCESS, {<<"task_wakeup">>}, {})
         /\ UNCHANGED domainVars
    ELSE /\ tasks' = [tasks EXCEPT ![task] = [@ EXCEPT !.state = "Ready",
                                                       !.wake = ERR_SUCCESS]]
         /\ pending' = [c \in {d \in DOMAIN pending : pending[d].requester # task} |->
                           pending[c]]
         /\ Return(ERR_SUCCESS, {<<"task_wakeup">>}, {})
         /\ UNCHANGED <<regions, nextShm, aspace, umem, nextCorr, mailbox>>

Observed_early(w, t) == [tasks EXCEPT ![t] = FreeTask]

\* the task table once waiter w has seen the exit code of Zombie t: the last
\* waiter reaps t, whose id is free again
Observed(w, t) ==
    IF WaitersOf(t) \ {w} = {} THEN [tasks EXCEPT ![t] = FreeTask] ELSE tasks

task_wait(w, tid, exitvalue) ==
    IF task_getbyid(tid) = NoTask
    THEN /\ Fail(-ERR_NOT_FOUND, {<<"task_wait">>}, {})
         /\ UNCHANGED domainVars
    ELSE IF tasks[tid].state = "Zombie"
    THEN /\ umem' = [umem EXCEPT ![w] = Put(@, exitvalue, tasks[tid].exitcode)]
         /\ tasks' = Observed(w, tid)
         /\ Return(ERR_SUCCESS, {<<"task_wait">>}, {<<exitvalue, SizeofInt>>})
         /\ UNCHANGED <<regions, nextShm, aspace, pending, nextCorr, mailbox>>
    ELSE /\ tasks' = [tasks EXCEPT ![w] = [@ EXCEPT !.state = "Blocked", !.insys = TRUE,
                                             !.wait = [NoWait EXCEPT !.kind = "wait",
                                                                      !.pid = tid]]]
         /\ Suspend({<<"task_wait">>}, {})
         /\ UNCHANGED <<regions, nextShm, aspace, umem, pending, nextCorr, mailbox>>

----------------------------------------------------------------------------
(* Address-space manager: map, unmap, alloc, free on pages *)

\* the backing of a page that no shared-memory region backs: mapped by map,
\* or fresh memory from alloc
Mapped == -1
Alloced == -2

PageRange(addr, count) == addr .. addr + count - 1

\* one mapping per anonymous page
AnonPages(pages, backing) == {[base |-> p, count |-> 1, region |-> backing] : p \in pages}

\* the pages of an address space with one of the given backings
PagesOf(as, backings) == UsedPages({m \in as : m.region \in backings})

\* the range is not empty and every page of it has one of the given backings
Covered(as, addr, count, backings) ==
    count >= 1 /\ PageRange(addr, count) \subseteq PagesOf(as, backings)

Without(as, addr, count) == {m \in as : m.base \notin PageRange(addr, count)}

task_memory_map(t, addr, count) ==
    IF addr >= 0 /\ Fits(aspace[t], addr, count)
    THEN /\ aspace' = [aspace EXCEPT ![t] = @ \cup AnonPages(PageRange(addr, count), Mapped)]
         /\ Return(ERR_SUCCESS, {<<"task_memory_map">>}, {})
         /\ UNCHANGED <<tasks, regions, nextShm, umem, pending, nextCorr, mailbox>>
    ELSE /\ Fail(-ERR_INVALID_STATE, {<<"task_memory_map">>}, {})
         /\ UNCHANGED domainVars

task_memory_unmap(t, addr, count) ==
    IF Covered(aspace[t], addr, count, {Mapped, Alloced})
    THEN /\ aspace' = [aspace EXCEPT ![t] = Without(@, addr, count)]
         /\ Return(ERR_SUCCESS, {<<"task_memory_unmap">>}, {})
         /\ UNCHANGED <<tasks, regions, nextShm, umem, pending, nextCorr, mailbox>>
    ELSE /\ Fail(-ERR_INVALID_STATE, {<<"task_memory_unmap">>}, {})
         /\ UNCHANGED domainVars

\* returns the base address chosen
task_memory_alloc(t, count) ==
    IF HasRoom(aspace[t], count)
    THEN /\ aspace' = [aspace EXCEPT ![t] =
                          @ \cup AnonPages(PageRange(ChooseBase(@, count), count), Alloced)]
         /\ Return(ChooseBase(aspace[t], count), {<<"task_memory_alloc">>}, {})
         /\ UNCHANGED <<tasks, regions, nextShm, umem, pending, nextCorr, mailbox>>
    ELSE /\ Fail(-ERR_INVALID_STATE, {<<"task_memory_alloc">>}, {})
         /\ UNCHANGED domainVars

\* unmap restricted to memory from alloc; what it reports its caller drops
task_memory_free(t, addr, count) ==
    /\ aspace' = [aspace EXCEPT ![t] =
                     IF Covered(@, addr, count, {Alloced}) THEN Without(@, addr, count) ELSE @]
    /\ UNCHANGED <<tasks, regions, nextShm, umem, pending, nextCorr, mailbox>>

----------------------------------------------------------------------------
(* Shared-memory registry *)

task_shared_memory_alloc(t, pagecount) ==
    IF pagecount < 1 \/ ~HasRoom(aspace[t], pagecount)
    THEN /\ Fail(-ERR_INVALID_STATE, {<<"task_shared_memory_alloc">>}, {})
         /\ UNCHANGED domainVars
    ELSE /\ nextShm < MaxRegions
         /\ regions' = Put(regions, nextShm, [refcount |-> 1, pagecount |-> pagecount])
         /\ aspace' = [aspace EXCEPT ![t] = @ \cup
                          {[base |-> ChooseBase(@, pagecount), count |-> pagecount,
                            region |-> nextShm]}]
         /\ nextShm' = nextShm + 1
         /\ Return(nextShm, {<<"task_shared_memory_alloc">>}, {})
         /\ UNCHANGED <<tasks, umem, pending, nextCorr, mailbox>>

\* acquire that maps before it looks at the output pointer
task_shared_memory_acquire_unvalidated(t, shm, addr) ==
    IF shm \notin DOMAIN regions
    THEN /\ Fail(-ERR_NOT_FOUND, {<<"task_shared_memory_acquire">>}, {})
         /\ UNCHANGED domainVars
    ELSE /\ regions[shm].refcount < MaxRefs
         /\ HasRoom(aspace[t], regions[shm].pagecount)
         /\ regions' = [regions EXCEPT ![shm].refcount = @ + 1]
         /\ aspace' = [aspace EXCEPT ![t] = @ \cup
                          {[base |-> ChooseBase(@, regions[shm].pagecount),
                            count |-> regions[shm].pagecount, region |-> shm]}]
         /\ IF syscall_validate_ptr(addr, SizeofInt)
            THEN /\ umem' = [umem EXCEPT ![t] =
                                Put(@, addr, ChooseBase(aspace[t], regions[shm].pagecount))]
                 /\ Return(ERR_SUCCESS, {<<"task_shared_memory_acquire">>},
                           {<<addr, SizeofInt>>})
            ELSE /\ umem' = umem
                 /\ Fail(-ERR_BAD_ADDRESS, {<<"task_shared_memory_acquire">>}, {})
         /\ UNCHANGED <<tasks, nextShm, pending, nextCorr, mailbox>>

task_shared_memory_acquire(t, shm, addr) ==
    IF ~syscall_validate_ptr(addr, SizeofInt)
    THEN /\ Fail(-ERR_BAD_ADDRESS, {<<"task_shared_memory_acquire">>}, {})
         /\ UNCHANGED domainVars
    ELSE IF shm \notin DOMAIN regions
    THEN /\ Fail(-ERR_NOT_FOUND, {<<"task_shared_memory_acquire">>}, {})
         /\ UNCHANGED domainVars
    ELSE /\ regions[shm].refcount < MaxRefs
         /\ HasRoom(aspace[t], regions[shm].pagecount)
         /\ regions' = [regions EXCEPT ![shm].refcount = @ + 1]
         /\ aspace' = [aspace EXCEPT ![t] = @ \cup
                          {[base |-> ChooseBase(@, regions[shm].pagecount),
                            count |-> regions[shm].pagecount, region |-> shm]}]
         /\ umem' = [umem EXCEPT ![t] =
                        Put(@, addr, ChooseBase(aspace[t], regions[shm].pagecount))]
         /\ Return(ERR_SUCCESS, {<<"task_shared_memory_acquire">>}, {<<addr, SizeofInt>>})
         /\ UNCHANGED <<tasks, nextShm, pending, nextCorr, mailbox>>

\* the mapping of region shm at the lowest address
LowestMapping(as, shm) ==
    CHOOSE m \in as : m.region = shm /\ \A n \in as : n.region = shm => m.base <= n.base

task_shared_memory_release(t, shm) ==
    IF shm \notin DOMAIN regions
    THEN /\ Fail(-ERR_NOT_FOUND, {<<"task_shared_memory_release">>}, {})
         /\ UNCHANGED domainVars
    ELSE IF t \notin Attached(shm)
    THEN /\ Fail(-ERR_INVALID_STATE, {<<"task_shared_memory_release">>}, {})
         /\ UNCHANGED domainVars
    ELSE /\ aspace' = [aspace EXCEPT ![t] = @ \ {LowestMapping(@, shm)}]
         /\ regions' = IF regions[shm].refcount = 1
                       THEN Drop(regions, shm)
                       ELSE [regions EXCEPT ![shm].refcount = @ - 1]
         /\ Return(ERR_SUCCESS, {<<"task_shared_memory_release">>}, {})
         /\ UNCHANGED <<tasks, nextShm, umem, pending, nextCorr, mailbox>>

----------------------------------------------------------------------------
(* Messaging: request / respond *)

NoDeadline == -1

\* the channel a user string names
ChannelAt(ptr) == IF ptr = UserBufA THEN "net" ELSE IF ptr = UserBufB THEN "log" ELSE ""

\* the message a mailbox holds for the event m sent by task t
Event(t, m) == [kind |-> "event", from |-> t, corr |-> m.corr]

\* the task table once a message arrived for the tasks of S: those blocked in
\* receive are made Ready
Arrived(S) ==
    [u \in Pids |->
        IF u \in S /\ tasks[u].state = "Blocked" /\ tasks[u].wait.kind = "receive"
        THEN [tasks[u] EXCEPT !.state = "Ready", !.wake = ERR_SUCCESS]
        ELSE tasks[u]]

\* send that leaves a receiver blocked in receive asleep
task_messaging_send_quiet(t, event, mem) ==
    LET m == ReadMsg(mem, event) IN
    IF ~Live(m.to)
    THEN /\ Fail(-ERR_NOT_FOUND, {<<"task_messaging_send">>}, {<<event, SizeofMessage>>})
         /\ UNCHANGED domainVars
    ELSE /\ mailbox' = [mailbox EXCEPT ![m.to] = Append(@, Event(t, m))]
         /\ Return(ERR_SUCCESS, {<<"task_messaging_send">>}, {<<event, SizeofMessage>>})
         /\ UNCHANGED <<tasks, regions, nextShm, aspace, umem, pending, nextCorr>>

task_messaging_send(t, event, mem) ==
    LET m == ReadMsg(mem, event) IN
    IF ~Live(m.to)
    THEN /\ Fail(-ERR_NOT_FOUND, {<<"task_messaging_send">>}, {<<event, SizeofMessage>>})
         /\ UNCHANGED domainVars
    ELSE /\ mailbox' = [mailbox EXCEPT ![m.to] = Append(@, Event(t, m))]
         /\ tasks' = Arrived({m.to})
         /\ Return(ERR_SUCCESS, {<<"task_messaging_send">>}, {<<event, SizeofMessage>>})
         /\ UNCHANGED <<regions, nextShm, aspace, umem, pending, nextCorr>>

\* the tasks subscribed to a channel
Subscribers(ch) == {u \in Pids : Live(u) /\ ch \in tasks[u].subs}

task_messaging_broadcast(t, channel, event, mem) ==
    LET m == ReadMsg(mem, event)
        to == Subscribers(ChannelAt(channel))
    IN  /\ mailbox' = [u \in Pids |->
                           IF u \in to THEN Append(mailbox[u], Event(t, m)) ELSE mailbox[u]]
        /\ tasks' = Arrived(to)
        /\ Return(ERR_SUCCESS, {<<"task_messaging_broadcast">>},
                  {<<channel, 1>>, <<event, SizeofMessage>>})
        /\ UNCHANGED <<regions, nextShm, aspace, umem, pending, nextCorr>>

task_messaging_subscribe(t, channel) ==
    /\ tasks' = [tasks EXCEPT ![t] = [@ EXCEPT !.subs = @ \cup {ChannelAt(channel)}]]
    /\ Return(ERR_SUCCESS, {<<"task_messaging_subscribe">>}, {<<channel, 1>>})
    /\ UNCHANGED <<regions, nextShm, aspace, umem, pending, nextCorr, mailbox>>

task_messaging_unsubscribe(t, channel) ==
    IF ChannelAt(channel) \in tasks[t].subs
    THEN /\ tasks' = [tasks EXCEPT ![t] = [@ EXCEPT !.subs = @ \ {ChannelAt(channel)}]]
         /\ Return(ERR_SUCCESS, {<<"task_messaging_unsubscribe">>}, {<<channel, 1>>})
         /\ UNCHANGED <<regions, nextShm, aspace, umem, pending, nextCorr, mailbox>>
    ELSE /\ Fail(-ERR_NOT_FOUND, {<<"task_messaging_unsubscribe">>}, {<<channel, 1>>})
         /\ UNCHANGED domainVars

Taken_newest(q) == [msg |-> q[Len(q)], rest |-> SubSeq(q, 1, Len(q) - 1)]

\* what receive takes from a mailbox: the oldest message
Taken(q) == [msg |-> Head(q), rest |-> Tail(q)]

task_messaging_receive(t, message, wait) ==
    IF mailbox[t] # << >>
    THEN /\ umem' = [umem EXCEPT ![t] = Put(@, message, Taken(mailbox[t]).msg)]
         /\ mailbox' = [mailbox EXCEPT ![t] = Taken(mailbox[t]).rest]
         /\ Return(ERR_SUCCESS, {<<"task_messaging_receive">>}, {<<message, SizeofMessage>>})
         /\ UNCHANGED <<tasks, regions, nextShm, aspace, pending, nextCorr>>
    ELSE IF wait = 0
    THEN /\ Fail(-ERR_NOT_FOUND, {<<"task_messaging_receive">>}, {})
         /\ UNCHANGED domainVars
    ELSE /\ tasks' = [tasks EXCEPT ![t] = [@ EXCEPT !.state = "Blocked", !.insys = TRUE,
                                             !.wait = [NoWait EXCEPT !.kind = "receive"]]]
         /\ Suspend({<<"task_messaging_receive">>}, {})
         /\ UNCHANGED <<regions, nextShm, aspace, umem, pending, nextCorr, mailbox>>

task_messaging_request(t, request, result, timeout, mem) ==
    LET to == ReadMsg(mem, request).to IN
    IF ~Live(to)
    THEN /\ Fail(-ERR_NOT_FOUND, {<<"task_messaging_request">>}, {<<request, SizeofMessage>>})
         /\ UNCHANGED domainVars
    ELSE /\ nextCorr < MaxCorr
         /\ timeout > 0 => ticks + timeout <= MaxTicks
         /\ mailbox' = [mailbox EXCEPT ![to] =
                           Append(@, [kind |-> "request", from |-> t, corr |-> nextCorr])]
         /\ pending' = Put(pending, nextCorr,
                           [requester |-> t, result |-> result,
                            deadline |-> IF timeout > 0 THEN ticks + timeout ELSE NoDeadline])
         /\ nextCorr' = nextCorr + 1
         /\ tasks' = [Arrived({to}) EXCEPT ![t] =
                                         [@ EXCEPT !.state = "Blocked", !.insys = TRUE,
                                             !.wait = [NoWait EXCEPT !.kind = "request",
                                                                      !.corr = nextCorr]]]
         /\ Suspend({<<"task_messaging_request">>}, {<<request, SizeofMessage>>})
         /\ UNCHANGED <<regions, nextShm, aspace, umem>>

task_messaging_respond(t, request, result, mem) ==
    LET c == ReadMsg(mem, request).corr IN
    IF c \in DOMAIN pending
    THEN /\ umem' = [umem EXCEPT ![pending[c].requester] =
                        Put(@, pending[c].result, [kind |-> "response", from |-> t, corr |-> c])]
         /\ tasks' = [tasks EXCEPT ![pending[c].requester] =
                          [@ EXCEPT !.state = "Ready", !.wake = ERR_SUCCESS]]
         /\ pending' = Drop(pending, c)
         /\ Return(ERR_SUCCESS, {<<"task_messaging_respond">>},
                   {<<request, SizeofMessage>>, <<result, SizeofMessage>>})
         /\ UNCHANGED <<regions, nextShm, aspace, nextCorr, mailbox>>
    ELSE /\ Return(ERR_SUCCESS, {<<"task_messaging_respond">>}, {<<request, SizeofMessage>>})
         /\ UNCHANGED domainVars

----------------------------------------------------------------------------
(* The handlers of syscalls.c *)

RECURSIVE MulU32(_, _)
\* k * x on size_t, for a small factor k (a sizeof)
MulU32(k, x) == IF k = 0 THEN 0 ELSE AddU32(x, MulU32(k - 1, x))

sys_process_this ==
    /\ Return(running, {}, {})
    /\ UNCHANGED domainVars

\* launch that hands the launchpad over unchecked
sys_process_launch_unchecked(launchpad) == task_launch(running, launchpad)

sys_process_launch(launchpad) ==
    IF ~syscall_validate_ptr(launchpad, SizeofLaunchpad)
    THEN /\ Fail(-ERR_BAD_ADDRESS, {}, {})
         /\ UNCHANGED domainVars
    ELSE task_launch(running, launchpad)

sys_process_exit(code) == task_exit(code)

CancelCode == -1

sys_process_cancel_zero(pid) == task_cancel(task_getbyid(pid), 0)

sys_process_cancel(pid) == task_cancel(task_getbyid(pid), CancelCode)

sys_process_map(addr, count) == task_memory_map(running, addr, count)

sys_process_unmap(addr, count) == task_memory_unmap(running, addr, count)

sys_process_alloc(count) == task_memory_alloc(running, count)

sys_process_free(addr, count) ==
    /\ task_memory_free(running, addr, count)
    /\ Return(0, {<<"task_memory_free">>}, {})

sys_process_get_cwd(buffer, size) ==
    /\ outcome' = [returned |-> TRUE, value |-> 0, failed |-> FALSE,
                   calls |-> {<<"task_get_cwd">>}, uaccess |-> {},
                   handed |-> {<<buffer, size>>}]
    /\ UNCHANGED domainVars

sys_process_set_cwd(path) == Collaborator("task_set_cwd", {<<path, 1>>})

sys_process_sleep(time) == task_sleep(running, time)

sys_process_wakeup_lost(tid) == task_wakeup(NoTask)

sys_process_wakeup(tid) == task_wakeup(task_getbyid(tid))

sys_process_wait(tid, exitvalue) == task_wait(running, tid, exitvalue)

sys_shared_memory_alloc(pagecount) == task_shared_memory_alloc(running, pagecount)

\* acquire that drops the callee's result, as sys_process_get_cwd does
sys_shared_memory_acquire_ignoring(shm, addr) ==
    IF ~syscall_validate_ptr(addr, SizeofInt) \/ shm \notin DOMAIN regions
    THEN /\ Return(0, {<<"task_shared_memory_acquire">>}, {})
         /\ UNCHANGED domainVars
    ELSE task_shared_memory_acquire(running, shm, addr)

sys_shared_memory_acquire(shm, addr) == task_shared_memory_acquire(running, shm, addr)

\* release that drops the callee's result, as sys_process_free does
sys_shared_memory_release_ignoring(shm) ==
    IF shm \notin DOMAIN regions \/ running \notin Attached(shm)
    THEN /\ Return(0, {<<"task_shared_memory_release">>}, {})
         /\ UNCHANGED domainVars
    ELSE task_shared_memory_release(running, shm)

sys_shared_memory_release(shm) == task_shared_memory_release(running, shm)

sys_messaging_send(event, mem) == task_messaging_send(running, event, mem)

sys_messaging_broadcast(channel, event, mem) ==
    task_messaging_broadcast(running, channel, event, mem)

\* request that hands on a timeout one tick short
sys_messaging_request_short(request, result, timeout, mem) ==
    task_messaging_request(running, request, result,
                           IF timeout > 0 THEN timeout - 1 ELSE timeout, mem)

sys_messaging_request(request, result, timeout, mem) ==
    task_messaging_request(running, request, result, timeout, mem)

sys_messaging_receive(message, wait) == task_messaging_receive(running, message, wait)

\* respond pasted from request: it calls task_messaging_request
sys_messaging_respond_as_request(request, result, mem) ==
    task_messaging_request(running, request, result, 0, mem)

\* respond with its two message arguments exchanged
sys_messaging_respond_swapped(request, result, mem) ==
    task_messaging_respond(running, result, request, mem)

sys_messaging_respond(request, result, mem) ==
    task_messaging_respond(running, request, result, mem)

sys_messaging_subscribe(channel) == task_messaging_subscribe(running, channel)

\* unsubscribe that reports success and leaves the subscriber set alone
sys_messaging_unsubscribe_kept(channel) ==
    /\ Return(ERR_SUCCESS, {<<"task_messaging_unsubscribe">>}, {<<channel, 1>>})
    /\ UNCHANGED domainVars

sys_messaging_unsubscribe(channel) == task_messaging_unsubscribe(running, channel)

sys_filesystem_mkdir(dir_path) == Collaborator("filesystem_mkdir", {<<dir_path, 1>>})

sys_filesystem_mkpipe(fifo_path) == Collaborator("filesystem_mkpipe", {<<fifo_path, 1>>})

sys_filesystem_link(old_path, new_path) ==
    Collaborator("filesystem_mklink", {<<old_path, 1>>, <<new_path, 1>>})

sys_filesystem_unlink(link_path) == Collaborator("filesystem_unlink", {<<link_path, 1>>})

sys_filesystem_rename(old_path, new_path) ==
    Collaborator("filesystem_rename", {<<old_path, 1>>, <<new_path, 1>>})

SizeofSystemInfo == 256     \* sizeof(SystemInfo)
SizeofSystemStatus == 16    \* sizeof(SystemStatus)
SizeofTimeStamp == 4        \* sizeof(TimeStamp)

sys_system_get_info(info) ==
    /\ Return(ERR_SUCCESS, {}, {<<info, SizeofSystemInfo>>})
    /\ UNCHANGED domainVars

sys_system_get_status(status) ==
    /\ Return(-ERR_SUCCESS, {<<"memory_get_total">>, <<"memory_get_used">>, <<"task_count">>},
              {<<status, SizeofSystemStatus>>})
    /\ UNCHANGED domainVars

sys_system_get_time(timestamp) ==
    /\ Return(-ERR_SUCCESS, {<<"clock_now">>}, {<<timestamp, SizeofTimeStamp>>})
    /\ UNCHANGED domainVars

sys_system_get_ticks ==
    /\ Return(ticks, {}, {})
    /\ UNCHANGED domainVars

\* the handle table of a task: the entries of its open handles
HandleIds(t) == {h.id : h \in tasks[t].handles}

HandleOf(t, id) == CHOOSE h \in tasks[t].handles : h.id = id

\* the slot a new handle takes: the lowest one that is not open
FreshHandle(t) ==
    CHOOSE i \in 0 .. MaxHandles - 1 :
        /\ i \notin HandleIds(t)
        /\ \A j \in 0 .. i - 1 : j \in HandleIds(t)

HandleResult(op, handed, r) ==
    outcome' = [returned |-> TRUE, value |-> r, failed |-> r # ERR_SUCCESS,
                calls |-> {<<op>>}, uaccess |-> {}, handed |-> handed]

\* a new handle goes into the table of task t and its id out to *out; the
\* operation fails when the table is full or the object cannot be had
InstallHandle(t, op, out, handed) ==
    \/ /\ HandleIds(t) # 0 .. MaxHandles - 1
       /\ tasks' = [tasks EXCEPT ![t].handles =
                        @ \cup {[id |-> FreshHandle(t), cursor |-> 0]}]
       /\ umem' = [umem EXCEPT ![t] = Put(@, out, FreshHandle(t))]
       /\ HandleResult(op, handed, ERR_SUCCESS)
       /\ UNCHANGED <<regions, nextShm, aspace, pending, nextCorr, mailbox>>
    \/ /\ HandleResult(op, handed,
                       IF HandleIds(t) = 0 .. MaxHandles - 1
                       THEN ERR_INVALID_STATE ELSE ERR_NOT_FOUND)
       /\ UNCHANGED domainVars

\* an operation on an id that is not open in the table of task t
InvalidHandle(op, handed) ==
    /\ HandleResult(op, handed, ERR_NOT_FOUND)
    /\ UNCHANGED domainVars

task_fshandle_open(t, handle, path, flags) ==
    InstallHandle(t, "task_fshandle_open", handle, {<<handle, SizeofInt>>, <<path, 1>>})

task_fshandle_connect(t, handle, path) ==
    InstallHandle(t, "task_fshandle_connect", handle, {<<handle, SizeofInt>>, <<path, 1>>})

task_fshandle_accept(t, handle, connection_handle) ==
    IF handle \notin HandleIds(t)
    THEN InvalidHandle("task_fshandle_accept", {<<connection_handle, SizeofInt>>})
    ELSE InstallHandle(t, "task_fshandle_accept", connection_handle,
                       {<<connection_handle, SizeofInt>>})

\* close that takes no look at the table
task_fshandle_close_any(t, handle) ==
    /\ tasks' = [tasks EXCEPT ![t].handles = {h \in @ : h.id # handle}]
    /\ HandleResult("task_fshandle_close", {}, ERR_SUCCESS)
    /\ UNCHANGED <<regions, nextShm, aspace, umem, pending, nextCorr, mailbox>>

task_fshandle_close(t, handle) ==
    IF handle \notin HandleIds(t)
    THEN InvalidHandle("task_fshandle_close", {})
    ELSE /\ tasks' = [tasks EXCEPT ![t].handles = {h \in @ : h.id # handle}]
         /\ HandleResult("task_fshandle_close", {}, ERR_SUCCESS)
         /\ UNCHANGED <<regions, nextShm, aspace, umem, pending, nextCorr, mailbox>>

\* a transfer through an open handle; the bytes moved are not modelled
task_fshandle_read(t, handle, buffer, size, readed) ==
    IF handle \notin HandleIds(t)
    THEN InvalidHandle("task_fshandle_read", {<<buffer, size>>, <<readed, SizeofInt>>})
    ELSE /\ HandleResult("task_fshandle_read",
                         {<<buffer, size>>, <<readed, SizeofInt>>}, ERR_SUCCESS)
         /\ UNCHANGED domainVars

task_fshandle_write(t, handle, buffer, size, written) ==
    IF handle \notin HandleIds(t)
    THEN InvalidHandle("task_fshandle_write", {<<buffer, size>>, <<written, SizeofInt>>})
    ELSE /\ HandleResult("task_fshandle_write",
                         {<<buffer, size>>, <<written, SizeofInt>>}, ERR_SUCCESS)
         /\ UNCHANGED domainVars

\* the cursor moves to the offset, kept inside the object
task_fshandle_seek(t, handle, offset, whence) ==
    IF handle \notin HandleIds(t)
    THEN InvalidHandle("task_fshandle_seek", {})
    ELSE /\ tasks' = [tasks EXCEPT ![t].handles =
                          {IF h.id = handle
                           THEN [h EXCEPT !.cursor = IF offset < 0 THEN 0
                                                     ELSE IF offset > MaxOffset THEN MaxOffset
                                                     ELSE offset]
                           ELSE h : h \in @}]
         /\ HandleResult("task_fshandle_seek", {}, ERR_SUCCESS)
         /\ UNCHANGED <<regions, nextShm, aspace, umem, pending, nextCorr, mailbox>>

task_fshandle_tell(t, handle, whence, offset) ==
    IF handle \notin HandleIds(t)
    THEN InvalidHandle("task_fshandle_tell", {<<offset, SizeofInt>>})
    ELSE /\ umem' = [umem EXCEPT ![t] = Put(@, offset, HandleOf(t, handle).cursor)]
         /\ HandleResult("task_fshandle_tell", {<<offset, SizeofInt>>}, ERR_SUCCESS)
         /\ UNCHANGED <<tasks, regions, nextShm, aspace, pending, nextCorr, mailbox>>

task_fshandle_stat(t, handle, state) ==
    IF handle \notin HandleIds(t)
    THEN InvalidHandle("task_fshandle_stat", {<<state, SizeofFileState>>})
    ELSE /\ HandleResult("task_fshandle_stat", {<<state, SizeofFileState>>}, ERR_SUCCESS)
         /\ UNCHANGED domainVars

sys_handle_open(handle, path, flags) ==
    IF ~syscall_validate_ptr(handle, SizeofInt)
    THEN /\ Fail(ERR_BAD_ADDRESS, {}, {})
         /\ UNCHANGED domainVars
    ELSE task_fshandle_open(running, handle, path, flags)

sys_handle_close(handle) == task_fshandle_close(running, handle)

sys_handle_select(handles, events, count, selected) ==
    IF \/ ~syscall_validate_ptr(handles, MulU32(SizeofInt, count))
       \/ ~syscall_validate_ptr(events, MulU32(SizeofSelectEvent, count))
       \/ ~syscall_validate_ptr(selected, SizeofInt)
    THEN /\ Fail(ERR_BAD_ADDRESS, {}, {})
         /\ UNCHANGED domainVars
    ELSE HandleCollaborator("task_fshandle_select",
                            {<<handles, MulU32(SizeofInt, count)>>,
                             <<events, MulU32(SizeofSelectEvent, count)>>,
                             <<selected, SizeofInt>>})

\* read that validates the data buffer only
sys_handle_read_unchecked_length(handle, buffer, size, readed) ==
    IF ~syscall_validate_ptr(buffer, size)
    THEN /\ Fail(ERR_BAD_ADDRESS, {}, {})
         /\ UNCHANGED domainVars
    ELSE task_fshandle_read(running, handle, buffer, size, readed)

sys_handle_read(handle, buffer, size, readed) ==
    IF \/ ~syscall_validate_ptr(buffer, size)
       \/ ~syscall_validate_ptr(readed, SizeofInt)
    THEN /\ Fail(ERR_BAD_ADDRESS, {}, {})
         /\ UNCHANGED domainVars
    ELSE task_fshandle_read(running, handle, buffer, size, readed)

sys_handle_write(handle, buffer, size, written) ==
    IF \/ ~syscall_validate_ptr(buffer, size)
       \/ ~syscall_validate_ptr(written, SizeofInt)
    THEN /\ Fail(ERR_BAD_ADDRESS, {}, {})
         /\ UNCHANGED domainVars
    ELSE task_fshandle_write(running, handle, buffer, size, written)

sys_handle_call(handle, request, args) == HandleCollaborator("task_fshandle_call", {<<args, 1>>})

sys_handle_seek(handle, offset, whence) == task_fshandle_seek(running, handle, offset, whence)

sys_handle_tell(handle, whence, offset) ==
    IF ~syscall_validate_ptr(offset, SizeofInt)
    THEN /\ Fail(ERR_BAD_ADDRESS, {}, {})
         /\ UNCHANGED domainVars
    ELSE task_fshandle_tell(running, handle, whence, offset)

sys_handle_stat(handle, state) ==
    IF ~syscall_validate_ptr(state, SizeofFileState)
    THEN /\ Fail(ERR_BAD_ADDRESS, {}, {})
         /\ UNCHANGED domainVars
    ELSE task_fshandle_stat(running, handle, state)

sys_handle_connect(handle, path) ==
    task_fshandle_connect(running, handle, path)

sys_handle_accept(handle, connection_handle) ==
    task_fshandle_accept(running, handle, connection_handle)

sys_handle_send(handle, message) ==
    HandleCollaborator("task_fshandle_send", {<<message, SizeofMessage>>})

sys_handle_receive(handle, message) ==
    HandleCollaborator("task_fshandle_receive", {<<message, SizeofMessage>>})

sys_handle_payload(handle, message) ==
    HandleCollaborator("task_fshandle_payload", {<<message, SizeofMessage>>})

sys_handle_discard(handle) == HandleCollaborator("task_fshandle_discard", {})

\* handler(context->ebx, context->ecx, context->edx, context->esi, context->edi):
\* each handler takes the leading arguments it declares
Invoke(handler, c, mem) ==
    CASE handler = "sys_process_this" -> sys_process_this
      [] handler = "sys_process_launch" -> sys_process_launch(c.ebx)
      [] handler = "sys_process_exit" -> sys_process_exit(c.ebx)
      [] handler = "sys_process_cancel" -> sys_process_cancel(c.ebx)
      [] handler = "sys_process_sleep" -> sys_process_sleep(c.ebx)
      [] handler = "sys_process_wakeup" -> sys_process_wakeup(c.ebx)
      [] handler = "sys_process_wait" -> sys_process_wait(c.ebx, c.ecx)
      [] handler = "sys_process_get_cwd" -> sys_process_get_cwd(c.ebx, c.ecx)
      [] handler = "sys_process_set_cwd" -> sys_process_set_cwd(c.ebx)
      [] handler = "sys_process_map" -> sys_process_map(c.ebx, c.ecx)
      [] handler = "sys_process_unmap" -> sys_process_unmap(c.ebx, c.ecx)
      [] handler = "sys_process_alloc" -> sys_process_alloc(c.ebx)
      [] handler = "sys_process_free" -> sys_process_free(c.ebx, c.ecx)
      [] handler = "sys_shared_memory_alloc" -> sys_shared_memory_alloc(c.ebx)
      [] handler = "sys_shared_memory_acquire" -> sys_shared_memory_acquire(c.ebx, c.ecx)
      [] handler = "sys_shared_memory_release" -> sys_shared_memory_release(c.ebx)
      [] handler = "sys_messaging_send" -> sys_messaging_send(c.ebx, mem)
      [] handler = "sys_messaging_broadcast" -> sys_messaging_broadcast(c.ebx, c.ecx, mem)
      [] handler = "sys_messaging_request" -> sys_messaging_request(c.ebx, c.ecx, c.edx, mem)
      [] handler = "sys_messaging_receive" -> sys_messaging_receive(c.ebx, c.ecx)
      [] handler = "sys_messaging_respond" -> sys_messaging_respond(c.ebx, c.ecx, mem)
      [] handler = "sys_messaging_subscribe" -> sys_messaging_subscribe(c.ebx)
      [] handler = "sys_messaging_unsubscribe" -> sys_messaging_unsubscribe(c.ebx)
      [] handler = "sys_filesystem_mkdir" -> sys_filesystem_mkdir(c.ebx)
      [] handler = "sys_filesystem_mkpipe" -> sys_filesystem_mkpipe(c.ebx)
      [] handler = "sys_filesystem_link" -> sys_filesystem_link(c.ebx, c.ecx)
      [] handler = "sys_filesystem_unlink" -> sys_filesystem_unlink(c.ebx)
      [] handler = "sys_filesystem_rename" -> sys_filesystem_rename(c.ebx, c.ecx)
      [] handler = "sys_system_get_info" -> sys_system_get_info(c.ebx)
      [] handler = "sys_system_get_status" -> sys_system_get_status(c.ebx)
      [] handler = "sys_system_get_time" -> sys_system_get_time(c.ebx)
      [] handler = "sys_system_get_ticks" -> sys_system_get_ticks
      [] handler = "sys_handle_open" -> sys_handle_open(c.ebx, c.ecx, c.edx)
      [] handler = "sys_handle_close" -> sys_handle_close(c.ebx)
      [] handler = "sys_handle_select" -> sys_handle_select(c.ebx, c.ecx, c.edx, c.esi)
      [] handler = "sys_handle_read" -> sys_handle_read(c.ebx, c.ecx, c.edx, c.esi)
      [] handler = "sys_handle_write" -> sys_handle_write(c.ebx, c.ecx, c.edx, c.esi)
      [] handler = "sys_handle_call" -> sys_handle_call(c.ebx, c.ecx, c.edx)
      [] handler = "sys_handle_seek" -> sys_handle_seek(c.ebx, c.ecx, c.edx)
      [] handler = "sys_handle_tell" -> sys_handle_tell(c.ebx, c.ecx, c.edx)
      [] handler = "sys_handle_stat" -> sys_handle_stat(c.ebx, c.ecx)
      [] handler = "sys_handle_connect" -> sys_handle_connect(c.ebx, c.ecx)
      [] handler = "sys_handle_accept" -> sys_handle_accept(c.ebx, c.ecx)
      [] handler = "sys_handle_send" -> sys_handle_send(c.ebx, c.ecx)
      [] handler = "sys_handle_receive" -> sys_handle_receive(c.ebx, c.ecx)
      [] handler = "sys_handle_payload" -> sys_handle_payload(c.ebx, c.ecx)
      [] handler = "sys_handle_discard" -> sys_handle_discard(c.ebx)

----------------------------------------------------------------------------
(* The dispatcher *)

\* a failure line for negative results only, whatever the identifier
FailureLog_negative(syscall, eax) ==
    IF eax < 0 THEN << <<"returned", syscall>> >> ELSE << >>

\* the two logging branches at the end of syscall_dispatcher: each line reads
\* syscall_names[syscall], recorded as the index it uses.  Syscall is an enum
\* whose signedness the compiler chooses: a negative identifier takes the
\* second branch when signed and the first when unsigned, and with the result
\* -ERR_FUNCTION_NOT_IMPLEMENTED it has then, either branch logs the same line.
FailureLog(syscall, eax) ==
    (IF syscall >= SYS_HANDLE_OPEN /\ eax # ERR_SUCCESS
     THEN << <<"returned", syscall>> >> ELSE << >>)
    \o
    (IF syscall < SYS_HANDLE_OPEN /\ eax < 0
     THEN << <<"returned", syscall>> >> ELSE << >>)

\* c is the context the trap pushed for task t; mem is t's memory.  The frame
\* lives on t's kernel stack: it is kept in context[t] while the handler is
\* suspended, and dispatch.context is the frame as the dispatcher returned it.
syscall_dispatcher(t, c, mem) ==
    LET syscall == c.eax
        handler == syscall_get_handler(syscall)
    IN  /\ IF handler # NULL
           THEN Invoke(handler, c, mem)
           ELSE /\ Fail(-ERR_FUNCTION_NOT_IMPLEMENTED, {}, {})
                /\ UNCHANGED domainVars
        /\ context' = [u \in Pids |->
                           IF u = t THEN (IF outcome'.returned THEN NoFrame ELSE c)
                           ELSE IF tasks'[u].insys THEN context[u] ELSE NoFrame]
        /\ dispatch' = [task |-> t, syscall |-> syscall, handler |-> handler, mem |-> mem,
                        context |-> IF outcome'.returned
                                    THEN [c EXCEPT !.eax = outcome'.value] ELSE c,
                        log |-> syscall_get_handler_log(syscall)
                                \o (IF handler = NULL THEN << <<"context">> >> ELSE << >>)
                                \o (IF outcome'.returned
                                    THEN FailureLog(syscall, outcome'.value) ELSE << >>)]

----------------------------------------------------------------------------
(* Observers: what the claims count *)

Add(f, k, n) == Put(f, k, (IF k \in DOMAIN f THEN f[k] ELSE 0) + n)

Succeeded(c, id) ==
    c.eax = id /\ outcome'.returned /\ outcome'.value = ERR_SUCCESS

\* per region id: successful acquire calls minus successful release calls, the
\* releases done for a terminating task's mappings included; times reclaimed
ObserveShm(c) ==
    /\ shmNet' =
          IF c.eax = SYS_SHARED_MEMORY_ALLOC /\ nextShm' # nextShm
          THEN Put(shmNet, nextShm, 0)
          ELSE IF Succeeded(c, SYS_SHARED_MEMORY_ACQUIRE)
          THEN Add(shmNet, c.ebx, 1)
          ELSE IF Succeeded(c, SYS_SHARED_MEMORY_RELEASE)
          THEN Add(shmNet, c.ebx, -1)
          ELSE IF tasks[running].state # "Zombie" /\ tasks'[running].state = "Zombie"
          THEN [id \in DOMAIN shmNet |-> shmNet[id] - Held(running, id)]
          ELSE shmNet
    /\ shmZeroed' =
          [id \in DOMAIN shmZeroed \cup (DOMAIN regions \ DOMAIN regions') |->
              (IF id \in DOMAIN shmZeroed THEN shmZeroed[id] ELSE 0)
              + (IF id \in DOMAIN regions \ DOMAIN regions' THEN 1 ELSE 0)]

\* the correlation id of the latest request task u was allowed to send
LatestOf(u) ==
    LET mine == {d \in DOMAIN reqlog : reqlog[d].requester = u}
    IN  IF mine = {} THEN -1 ELSE CHOOSE d \in mine : \A e \in mine : e <= d

\* per correlation id: who was allocated it, at which tick and with which
\* timeout, and how many responds resumed the requester while it waited on it
ObserveRequests(c, mem) ==
    LET resumed == {u \in Pids : tasks[u].state = "Blocked" /\ tasks'[u].state # "Blocked"}
    IN  reqlog' =
          IF c.eax = SYS_MESSAGING_REQUEST /\ nextCorr' # nextCorr
          THEN Put(reqlog, nextCorr,
                   [requester |-> running, issued |-> ticks, timeout |-> c.edx,
                    responds |-> 0])
          ELSE [d \in DOMAIN reqlog |->
                   IF c.eax = SYS_MESSAGING_RESPOND /\ \E u \in resumed : LatestOf(u) = d
                   THEN [reqlog[d] EXCEPT !.responds = @ + 1]
                   ELSE reqlog[d]]

\* the code each Zombie's exit or cancel supplied; the tasks a wakeup made
\* Ready; the tick the sleep of each sleeping task is due to end
ObserveSched(c) ==
    LET died == {u \in Pids : tasks[u].state # "Zombie" /\ tasks'[u].state = "Zombie"}
        zombies == {u \in Pids : tasks'[u].state = "Zombie"}
    IN  /\ exitlog' = [u \in zombies |->
                          IF u \in died
                          THEN (IF c.eax = SYS_PROCESS_EXIT THEN c.ebx ELSE CancelCode)
                          ELSE exitlog[u]]
        /\ woken' = {u \in Pids :
                        /\ tasks'[u].insys
                        /\ \/ u \in woken
                           \/ /\ Succeeded(c, SYS_PROCESS_WAKEUP)
                              /\ c.ebx = u
                              /\ tasks[u].state = "Blocked"}
        /\ sleepdue' = [u \in {v \in Pids : /\ tasks'[v].insys
                                            /\ tasks'[v].wait.kind = "sleep"} |->
                           IF u \in DOMAIN sleepdue THEN sleepdue[u] ELSE ticks + c.ebx]

\* a log without the entries of the tasks that are no longer live
Surviving(log) ==
    [r \in Pids |-> IF tasks'[r].state \in {"Ready", "Blocked"} THEN log[r] ELSE << >>]

\* the messages each live task was sent, by send, broadcast (to the tasks whose
\* subscribe calls stand) and request; the messages its receive calls returned;
\* the subscribe calls that stand
ObserveMail(c, mem) ==
    LET sent(r) ==
            IF Succeeded(c, SYS_MESSAGING_SEND) /\ ReadMsg(mem, c.ebx).to = r
            THEN << Event(running, ReadMsg(mem, c.ebx)) >>
            ELSE IF Succeeded(c, SYS_MESSAGING_BROADCAST)
                    /\ <<r, ChannelAt(c.ebx)>> \in members
            THEN << Event(running, ReadMsg(mem, c.ecx)) >>
            ELSE IF c.eax = SYS_MESSAGING_REQUEST /\ nextCorr' # nextCorr
                    /\ ReadMsg(mem, c.ebx).to = r
            THEN << [kind |-> "request", from |-> running, corr |-> nextCorr] >>
            ELSE << >>
    IN  /\ sentlog' = Surviving([r \in Pids |-> sentlog[r] \o sent(r)])
        /\ gotlog' = Surviving([r \in Pids |->
                          IF r = running /\ Succeeded(c, SYS_MESSAGING_RECEIVE)
                          THEN Append(gotlog[r], umem'[r][c.ebx]) ELSE gotlog[r]])
        /\ members' =
              {e \in (IF Succeeded(c, SYS_MESSAGING_SUBSCRIBE)
                      THEN members \cup {<<running, ChannelAt(c.ebx)>>}
                      ELSE IF Succeeded(c, SYS_MESSAGING_UNSUBSCRIBE)
                      THEN members \ {<<running, ChannelAt(c.ebx)>>}
                      ELSE members) : tasks'[e[1]].state \in {"Ready", "Blocked"}}

----------------------------------------------------------------------------
(* Steps *)

\* the scheduler switches to another ready task
Schedule(t) ==
    /\ Preemptible
    /\ t # running
    /\ InUserMode(t)
    /\ running' = t
    /\ step' = "schedule"
    /\ outcome' = NoOutcome
    /\ dispatch' = NoDispatch
    /\ UNCHANGED <<validateVars, uiVars, atomicVars, ticks, tasks, context, umem, shmVars, msgVars, schedVars,
                   mailVars>>

\* the running task traps with registers c; the dispatcher handles the call
Trap(c, mem) ==
    /\ InUserMode(running)
    /\ syscall_dispatcher(running, c, mem)
    /\ ObserveShm(c)
    /\ ObserveRequests(c, mem)
    /\ ObserveSched(c)
    /\ ObserveMail(c, mem)
    /\ step' = "syscall"
    /\ UNCHANGED <<validateVars, uiVars, ticks, running>>

\* a call whose handler runs in one piece
Syscall(c, mem) ==
    /\ Preemptible
    /\ Trap(c, mem)
    /\ UNCHANGED atomicVars

\* ATOMIC({ result = ...; }) of sys_process_cancel and sys_process_wakeup: the
\* running task traps and enters the section
EnterAtomic(c) ==
    /\ c.eax \in {SYS_PROCESS_CANCEL, SYS_PROCESS_WAKEUP}
    /\ Preemptible
    /\ InUserMode(running)
    /\ atomic_begin
    /\ section' = [task |-> running, frame |-> c, depth |-> atomic,
                   found |-> task_getbyid(c.ebx)]
    /\ step' = "atomic"
    /\ outcome' = NoOutcome
    /\ dispatch' = NoDispatch
    /\ UNCHANGED <<validateVars, uiVars, ticks, running, tasks, context, umem, shmVars,
                   msgVars, schedVars, mailVars>>

\* the body of the section runs, the section is left and the handler returns
\* result
LeaveAtomic ==
    /\ section.task = running
    /\ Trap(section.frame, NoDispatch.mem)
    /\ atomic_end
    /\ section' = NoSection

\* a woken task is scheduled again: its suspended handler returns the wake value
\* and the dispatcher finishes
Resume(t) ==
    LET w == tasks[t].wait
        died == w.kind = "wait" /\ tasks[w.pid].state = "Zombie"
        got == w.kind = "receive" /\ mailbox[t] # << >>
        value == IF w.kind # "receive" THEN tasks[t].wake
                 ELSE IF got THEN ERR_SUCCESS ELSE -ERR_NOT_FOUND
    IN  /\ Preemptible
        /\ tasks[t].state = "Ready"
        /\ tasks[t].insys
        /\ running' = t
        /\ step' = "resume"
        /\ tasks' = [(IF died THEN Observed(t, w.pid) ELSE tasks) EXCEPT
                        ![t] = [@ EXCEPT !.insys = FALSE, !.wait = NoWait, !.wake = 0]]
        /\ umem' = IF died
                   THEN [umem EXCEPT ![t] = Put(@, context[t].ecx, tasks[w.pid].exitcode)]
                   ELSE IF got
                   THEN [umem EXCEPT ![t] = Put(@, context[t].ebx, Taken(mailbox[t]).msg)]
                   ELSE umem
        /\ mailbox' = IF got THEN [mailbox EXCEPT ![t] = Taken(mailbox[t]).rest] ELSE mailbox
        /\ outcome' = [returned |-> TRUE, value |-> value, failed |-> value < 0,
                       calls |-> {}, uaccess |-> {}, handed |-> {}]
        /\ context' = [context EXCEPT ![t] = NoFrame]
        /\ dispatch' = [task |-> t, syscall |-> context[t].eax,
                        handler |-> syscall_get_handler(context[t].eax), mem |-> dispatch.mem,
                        context |-> [context[t] EXCEPT !.eax = value],
                        log |-> FailureLog(context[t].eax, value)]
        /\ exitlog' = [u \in {v \in Pids : tasks'[v].state = "Zombie"} |-> exitlog[u]]
        /\ woken' = woken \ {t}
        /\ sleepdue' = Drop(sleepdue, t)
        /\ sentlog' = Surviving(sentlog)
        /\ gotlog' = Surviving([gotlog EXCEPT ![t] =
                                   IF context[t].eax = SYS_MESSAGING_RECEIVE
                                      /\ value = ERR_SUCCESS
                                   THEN Append(@, umem'[t][context[t].ebx]) ELSE @])
        /\ UNCHANGED <<validateVars, uiVars, atomicVars, ticks, shmVars, pending, nextCorr, reqlog, members>>

\* the requests whose deadline has passed at tick now
Expired(now) == {c \in DOMAIN pending :
                    pending[c].deadline # NoDeadline /\ pending[c].deadline <= now}

\* a timer tick: requests past their deadline time out
Tick ==
    /\ Preemptible
    /\ ticks < MaxTicks
    /\ ticks' = ticks + 1
    /\ step' = "tick"
    /\ LET due == Expired(ticks')
           late == {pending[c].requester : c \in due}
           rested == {t \in Pids : /\ tasks[t].state = "Blocked"
                                   /\ tasks[t].wait.kind = "sleep"
                                   /\ tasks[t].wait.until <= ticks'}
       IN  /\ tasks' = [t \in Pids |->
                           IF t \in late
                           THEN [tasks[t] EXCEPT !.state = "Ready", !.wake = -ERR_TIMEOUT]
                           ELSE IF t \in rested
                           THEN [tasks[t] EXCEPT !.state = "Ready", !.wake = ERR_SUCCESS]
                           ELSE tasks[t]]
           /\ pending' = [c \in DOMAIN pending \ due |-> pending[c]]
    /\ outcome' = NoOutcome
    /\ dispatch' = NoDispatch
    /\ UNCHANGED <<validateVars, uiVars, atomicVars, running, context, umem, shmVars, nextCorr,
                   mailbox, reqlog,
                   schedVars, mailVars>>

----------------------------------------------------------------------------
(* DialogLayer *)

\* bool visible() const: (bool)_dialog
visible == layer._dialog # {}

\* a call that changes the kernel and the validator in nothing
UiOnly == UNCHANGED <<validateVars, kernelVars, atomicVars>>

\* show that attaches the dialog at once
show_now(dialog) ==
    /\ layer' = [layer EXCEPT !._dialog = {dialog},
                              !.attached = (@ \ layer._dialog) \cup {dialog},
                              !.relayout = TRUE, !._opacity = 1]
    /\ uicall' = [NoCall EXCEPT !.op = "show", !.arg = {dialog}]
    /\ UiOnly

\* void show(Child dialog): _shouldShow = dialog; shouldLayout(*this);
\* _opacity.animate(*this, 1, 0.1)
show(dialog) ==
    /\ layer' = [layer EXCEPT !._shouldShow = {dialog}, !.relayout = TRUE, !._opacity = 1]
    /\ uicall' = [NoCall EXCEPT !.op = "show", !.arg = {dialog}]
    /\ UiOnly

\* close without the test of _dialog
close_unguarded ==
    /\ layer' = [layer EXCEPT !._shouldClose = TRUE, !.relayout = TRUE, !._opacity = 0]
    /\ uicall' = [NoCall EXCEPT !.op = "close"]
    /\ UiOnly

\* void close(): if (_dialog) { _shouldClose = true; shouldLayout(*this);
\* _opacity.animate(*this, 0, 0.1); }
close ==
    /\ layer' = IF layer._dialog # {}
                THEN [layer EXCEPT !._shouldClose = TRUE, !.relayout = TRUE, !._opacity = 0]
                ELSE layer
    /\ uicall' = [NoCall EXCEPT !.op = "close"]
    /\ UiOnly

\* void paint(g, r): child().paint(g, r); if (visible()) dialog().paint(g, r)
paint ==
    /\ uicall' = [NoCall EXCEPT !.op = "paint", !.reached = {"child"} \cup layer._dialog]
    /\ UNCHANGED layer
    /\ UiOnly

\* void event(e): if (visible()) dialog().event(e); else child().event(e)
event ==
    /\ uicall' = [NoCall EXCEPT !.op = "event",
                                !.reached = IF visible THEN layer._dialog ELSE {"child"}]
    /\ UNCHANGED layer
    /\ UiOnly

\* void layout(r): the pending close, then the pending show, then the layout of
\* the child and of the dialog.  (*_dialog)->detach(this) on an empty _dialog
\* dereferences NONE: the call is marked and either stops there or goes on as
\* if nothing had been detached.
layout ==
    LET torn == layer._shouldClose /\ layer._dialog = {}
        closed == IF layer._shouldClose
                  THEN [layer EXCEPT !.attached = @ \ layer._dialog, !._dialog = {},
                                     !._shouldClose = FALSE]
                  ELSE layer
        shown == IF closed._shouldShow # {}
                 THEN [closed EXCEPT !.attached = (@ \ closed._dialog) \cup closed._shouldShow,
                                     !._dialog = closed._shouldShow,
                                     !._shouldShow = {}]
                 ELSE closed
    IN  /\ \E stops \in (IF torn THEN BOOLEAN ELSE {FALSE}) :
              /\ layer' = IF stops THEN layer ELSE shown
              /\ uicall' = [op |-> "layout", arg |-> {},
                            reached |-> IF stops THEN {} ELSE {"child"} \cup shown._dialog,
                            applied |-> (IF layer._shouldClose THEN {"close"} ELSE {})
                                        \cup (IF layer._shouldShow # {} THEN {"show"} ELSE {}),
                            deref |-> torn]
        /\ UiOnly

----------------------------------------------------------------------------
(* Specifications *)

\* the validator on its own
NextValidate == Validate /\ UNCHANGED <<kernelVars, uiVars, atomicVars>>
SpecValidate == Init /\ [][NextValidate]_vars


\* the number of parameters each handler declares, in SYSCALL_LIST order; the
\* registers past them are never read
ArgCount ==
    << 0, 1, 1, 1, 1, 1, 2, 2, 1, 2, 2, 1, 2,
       1, 2, 1,
       1, 2, 3, 2, 2, 1, 1,
       1, 1, 2, 1, 2,
       1, 1, 1, 0,
       3, 1, 4, 4, 4, 3, 3, 3, 2, 2, 2, 2, 2, 2, 1 >>

\* registers a task may trap with: every identifier of the enumeration with
\* argument words around the validator's boundaries, and identifiers outside it
ArgWords ==
    {Frame(0, b, c, d, si, di) :
        b \in {0, Watermark - 1, Watermark, -4},
        c \in {0, Watermark, -4},
        d \in {1, -4},
        si \in {0, Watermark},
        di \in {0, 1}}
Used(id, f) ==
    LET n == ArgCount[id + 1] IN
    /\ n < 1 => f.ebx = 0
    /\ n < 2 => f.ecx = 0
    /\ n < 3 => f.edx = 1
    /\ n < 4 => f.esi = 0
    /\ f.edi = 0
DispatchFrames ==
    {[f EXCEPT !.eax = id] : id \in {-1, SYSCALL_COUNT}, f \in ArgWords}
    \cup {Frame(id, 0, 0, 0, 0, 0) : id \in {MinInt32, MaxInt32}}
    \cup UNION {{[f EXCEPT !.eax = id] : f \in {g \in ArgWords : Used(id, g)}} :
                   id \in 0 .. SYSCALL_COUNT - 1}
QuietMemory == [p \in MsgPtrs |-> JunkMsg]

\* no message is queued, no channel is subscribed to and no handle is open
Quiet ==
    \A t \in Pids : mailbox[t] = << >> /\ tasks[t].subs = {} /\ tasks[t].handles = {}

\* one task exercising every entry of the dispatch table, from the states in
\* which messaging and the handle tables are quiet
NextDispatch == \E c \in DispatchFrames : Quiet /\ Syscall(c, QuietMemory)
SpecDispatch == Init /\ [][NextDispatch]_vars

\* tasks allocating, acquiring and releasing regions, and terminating
ShmFrames ==
    {Frame(SYS_PROCESS_LAUNCH, UserBufA, 0, 0, 0, 0), Frame(SYS_PROCESS_EXIT, 0, 0, 0, 0, 0)}
    \cup {Frame(SYS_SHARED_MEMORY_ALLOC, n, 0, 0, 0, 0) : n \in {0, 1}}
    \cup {Frame(SYS_SHARED_MEMORY_ACQUIRE, id, a, 0, 0, 0) :
             id \in 0 .. MaxRegions, a \in {UserBufA, Watermark - 1}}
    \cup {Frame(SYS_SHARED_MEMORY_RELEASE, id, 0, 0, 0, 0) : id \in 0 .. MaxRegions}

\* the tasks ever launched
Launched == {t \in Pids : tasks[t].state # "Free"}

NextShm ==
    \/ \E c \in ShmFrames :
          /\ c.eax = SYS_PROCESS_LAUNCH => Cardinality(Launched) < MaxShmTasks
          /\ Syscall(c, QuietMemory)
    \/ \E t \in Pids : Schedule(t)
SpecShm == Init /\ [][NextShm]_vars

\* the kernel once its first task has launched the others
InitMsg ==
    /\ InitValidate
    /\ InitUi
    /\ InitAtomic
    /\ ticks = 0
    /\ running = 0
    /\ tasks = [t \in Pids |-> ReadyTask]
    /\ context = [t \in Pids |-> NoFrame]
    /\ outcome = NoOutcome
    /\ dispatch = NoDispatch
    /\ step = "schedule"
    /\ regions = << >>
    /\ nextShm = 0
    /\ aspace = [t \in Pids |-> {}]
    /\ umem = [t \in Pids |-> << >>]
    /\ shmNet = << >>
    /\ shmZeroed = << >>
    /\ pending = << >>
    /\ nextCorr = 0
    /\ mailbox = [t \in Pids |-> << >>]
    /\ reqlog = << >>
    /\ exitlog = << >>
    /\ woken = {}
    /\ sleepdue = << >>
    /\ sentlog = [t \in Pids |-> << >>]
    /\ gotlog = [t \in Pids |-> << >>]
    /\ members = {}

\* tasks sending requests with and without a timeout to the last task of the
\* table and answering them, the timer ticking; a request message names its
\* target, a respond message carries a correlation id
MsgMemory(m) == [p \in MsgPtrs |-> IF p = UserBufA THEN m ELSE JunkMsg]
Timeouts == {0, 2}
MsgCalls ==
    {<<Frame(SYS_MESSAGING_REQUEST, UserBufA, UserBufB, T, 0, 0),
       MsgMemory([to |-> t, corr |-> 0])>> : T \in Timeouts, t \in {MaxTasks - 1}}
    \cup {<<Frame(SYS_MESSAGING_RESPOND, UserBufA, UserBufB, 0, 0, 0),
            MsgMemory([to |-> 0, corr |-> c])>> : c \in 0 .. MaxCorr}

NextMsg ==
    \/ \E call \in MsgCalls : Syscall(call[1], call[2])
    \/ \E t \in Pids : Schedule(t)
    \/ \E t \in Pids : Resume(t)
    \/ Tick
\* the timer interrupt keeps firing and the scheduler runs every ready task
SpecMsg ==
    /\ InitMsg
    /\ [][NextMsg]_vars
    /\ WF_vars(Tick)
    /\ \A t \in Pids : WF_vars(Resume(t))

\* a pid ranges over the task table and one id beyond it
PidWords == 0 .. MaxTasks

\* tasks launching, waiting on, waking, cancelling one another and exiting
WaitFrames ==
    {Frame(SYS_PROCESS_LAUNCH, UserBufA, 0, 0, 0, 0), Frame(SYS_PROCESS_EXIT, 7, 0, 0, 0, 0)}
    \cup {Frame(SYS_PROCESS_CANCEL, pid, 0, 0, 0, 0) : pid \in PidWords}
    \cup {Frame(SYS_PROCESS_WAKEUP, pid, 0, 0, 0, 0) : pid \in PidWords}
    \cup {Frame(SYS_PROCESS_WAIT, pid, UserBufA, 0, 0, 0) : pid \in PidWords}

NextWait ==
    \/ \E c \in WaitFrames : Syscall(c, QuietMemory)
    \/ \E t \in Pids : Schedule(t)
    \/ \E t \in Pids : Resume(t)
\* the scheduler runs every ready task
SpecWait ==
    /\ Init
    /\ [][NextWait]_vars
    /\ \A t \in Pids : WF_vars(Resume(t))

\* tasks launching, sleeping, waking and cancelling one another, the timer ticking
SleepFrames ==
    {Frame(SYS_PROCESS_LAUNCH, UserBufA, 0, 0, 0, 0)}
    \cup {Frame(SYS_PROCESS_SLEEP, d, 0, 0, 0, 0) : d \in {0, 2}}
    \cup {Frame(SYS_PROCESS_CANCEL, pid, 0, 0, 0, 0) : pid \in PidWords}
    \cup {Frame(SYS_PROCESS_WAKEUP, pid, 0, 0, 0, 0) : pid \in PidWords}

NextSleep ==
    \/ \E c \in SleepFrames : Syscall(c, QuietMemory)
    \/ \E t \in Pids : Schedule(t)
    \/ \E t \in Pids : Resume(t)
    \/ Tick
SpecSleep ==
    /\ Init
    /\ [][NextSleep]_vars
    /\ WF_vars(Tick)
    /\ \A t \in Pids : WF_vars(Resume(t))

\* messages sent so far to the tasks that live
TotalSent == Len(sentlog[0]) + Len(sentlog[1]) + Len(sentlog[2])

\* a send or broadcast is tried while fewer than MaxSends messages were sent
Sendable(c) ==
    c.eax \in {SYS_MESSAGING_SEND, SYS_MESSAGING_BROADCAST} => TotalSent < MaxSends

\* three tasks subscribing to a channel and leaving it, broadcasting on it and
\* receiving without wait
ChanMemory(m) == [p \in MsgPtrs |-> m]
ChanCalls ==
    {<<Frame(id, UserBufA, 0, 0, 0, 0), QuietMemory>> :
        id \in {SYS_MESSAGING_SUBSCRIBE, SYS_MESSAGING_UNSUBSCRIBE}}
    \cup {<<Frame(SYS_MESSAGING_BROADCAST, UserBufA, UserBufB, 0, 0, 0),
            ChanMemory([to |-> 0, corr |-> 2])>>}
    \cup {<<Frame(SYS_MESSAGING_RECEIVE, UserBufB, 0, 0, 0, 0), QuietMemory>>}

\* the first task of the table is the one that broadcasts
NextChan ==
    \/ \E call \in ChanCalls :
          /\ call[1].eax = SYS_MESSAGING_BROADCAST => running = 0
          /\ Sendable(call[1])
          /\ Syscall(call[1], call[2])
    \/ \E t \in Pids : Schedule(t)
SpecChan == InitMsg /\ [][NextChan]_vars

\* the last task of the table subscribes to a channel and receives, with and
\* without wait; the others send to it, broadcast on the channel and wake it
Receiver == MaxTasks - 1
ReceiverCalls ==
    {<<Frame(SYS_MESSAGING_SUBSCRIBE, UserBufA, 0, 0, 0, 0), QuietMemory>>}
    \cup {<<Frame(SYS_MESSAGING_RECEIVE, UserBufB, w, 0, 0, 0), QuietMemory>> : w \in {0, 1}}
SenderCalls ==
    {<<Frame(SYS_MESSAGING_BROADCAST, UserBufA, UserBufB, 0, 0, 0),
       ChanMemory([to |-> 0, corr |-> 2])>>,
     <<Frame(SYS_PROCESS_WAKEUP, Receiver, 0, 0, 0, 0), QuietMemory>>}
    \cup {<<Frame(SYS_MESSAGING_SEND, UserBufA, 0, 0, 0, 0),
            ChanMemory([to |-> Receiver, corr |-> k])>> : k \in {0, 1}}

NextMail ==
    \/ \E call \in ReceiverCalls : running = Receiver /\ Syscall(call[1], call[2])
    \/ \E call \in SenderCalls :
          running # Receiver /\ Sendable(call[1]) /\ Syscall(call[1], call[2])
    \/ \E t \in Pids : Schedule(t)
    \/ \E t \in Pids : Resume(t)
\* the scheduler runs every ready task
SpecMail ==
    /\ InitMsg
    /\ [][NextMail]_vars
    /\ \A t \in Pids : WF_vars(Resume(t))

\* three tasks blocking in sleep, wait, receive and request, and cancelling
\* one another
CancelCalls ==
    {<<Frame(SYS_PROCESS_SLEEP, 2, 0, 0, 0, 0), QuietMemory>>,
     <<Frame(SYS_MESSAGING_RECEIVE, UserBufB, 1, 0, 0, 0), QuietMemory>>,
     <<Frame(SYS_MESSAGING_REQUEST, UserBufA, UserBufB, 0, 0, 0),
       MsgMemory([to |-> 0, corr |-> 0])>>}
    \cup {<<Frame(id, pid, UserBufA, 0, 0, 0), QuietMemory>> :
            id \in {SYS_PROCESS_WAIT, SYS_PROCESS_CANCEL}, pid \in Pids}

NextCancel ==
    \/ \E call \in CancelCalls : Syscall(call[1], call[2])
    \/ \E t \in Pids : Schedule(t)
    \/ \E t \in Pids : Resume(t)
SpecCancel == InitMsg /\ [][NextCancel]_vars

\* one task mapping, unmapping, allocating and freeing pages of its address
\* space, part of which a shared-memory region may occupy
Counts == 0 .. MaxPages
MemFrames ==
    {Frame(id, addr, count, 0, 0, 0) :
        id \in {SYS_PROCESS_MAP, SYS_PROCESS_UNMAP, SYS_PROCESS_FREE},
        addr \in 0 .. MaxPages - 1, count \in Counts}
    \cup {Frame(SYS_PROCESS_ALLOC, count, 0, 0, 0, 0) : count \in Counts}
    \cup {Frame(SYS_SHARED_MEMORY_ALLOC, 1, 0, 0, 0, 0)}

NextMem == \E c \in MemFrames : Syscall(c, QuietMemory)
SpecMem == Init /\ [][NextMem]_vars

\* one task calling select, read and write with pointers around the
\* watermark and the top of the address space, and with counts and sizes whose
\* byte length is small, large, or wraps
\* 0x40000001: four times this count is 4 modulo 2^32
BigCount == (MaxInt32 \div 2) + 2
HandlePtrs == {Watermark - 1, Watermark, -4}
HandleFrames ==
    {Frame(SYS_HANDLE_SELECT, handles, events, count, selected, 0) :
        handles \in HandlePtrs, events \in HandlePtrs,
        count \in {0, 1, BigCount, -1}, selected \in HandlePtrs}
    \cup {Frame(id, 0, buffer, size, length, 0) :
            id \in {SYS_HANDLE_READ, SYS_HANDLE_WRITE},
            buffer \in HandlePtrs, size \in {0, 4, -4}, length \in HandlePtrs}

\* two tasks opening, connecting, accepting and closing handles and operating
\* on ids inside and outside the table
FsIds == 0 .. MaxHandles
FsFrames ==
    {Frame(SYS_PROCESS_LAUNCH, UserBufA, 0, 0, 0, 0)}
    \cup {Frame(id, UserBufA, UserBufB, 0, 0, 0) : id \in {SYS_HANDLE_OPEN, SYS_HANDLE_CONNECT}}
    \cup {Frame(SYS_HANDLE_ACCEPT, h, UserBufA, 0, 0, 0) : h \in FsIds}
    \cup {Frame(SYS_HANDLE_CLOSE, h, 0, 0, 0, 0) : h \in FsIds}
    \cup {Frame(id, h, UserBufB, SizeofInt, UserBufB, 0) :
            id \in {SYS_HANDLE_READ, SYS_HANDLE_WRITE}, h \in FsIds}
    \cup {Frame(SYS_HANDLE_SEEK, h, offset, 0, 0, 0) : h \in FsIds, offset \in 0 .. MaxOffset}
    \cup {Frame(SYS_HANDLE_TELL, h, 0, UserBufA, 0, 0) : h \in FsIds}
    \cup {Frame(SYS_HANDLE_STAT, h, UserBufB, 0, 0, 0) : h \in FsIds}

NextFs ==
    \/ \E c \in FsFrames :
          /\ c.eax = SYS_PROCESS_LAUNCH => Cardinality(Launched) < MaxShmTasks
          /\ Syscall(c, QuietMemory)
    \/ \E t \in Pids : Schedule(t)
SpecFs == Init /\ [][NextFs]_vars

\* tasks sleeping, exiting, and cancelling and waking one another through the
\* ATOMIC block of the two handlers
AtomicFrames ==
    {Frame(SYS_PROCESS_SLEEP, 1, 0, 0, 0, 0), Frame(SYS_PROCESS_EXIT, 7, 0, 0, 0, 0)}
    \cup {Frame(id, pid, 0, 0, 0, 0) :
            id \in {SYS_PROCESS_CANCEL, SYS_PROCESS_WAKEUP}, pid \in PidWords}

NextAtomic ==
    \/ \E c \in AtomicFrames :
          IF c.eax \in {SYS_PROCESS_CANCEL, SYS_PROCESS_WAKEUP}
          THEN EnterAtomic(c) ELSE Syscall(c, QuietMemory)
    \/ LeaveAtomic
    \/ \E t \in Pids : Schedule(t)
    \/ \E t \in Pids : Resume(t)
    \/ Tick
SpecAtomic == InitMsg /\ [][NextAtomic]_vars

\* any sequence of calls on one DialogLayer
Dialogs == {"dialog1", "dialog2", "dialog3"}
NextDialog ==
    \/ \E d \in Dialogs : show(d)
    \/ close
    \/ layout
    \/ paint
    \/ event
SpecDialog == Init /\ [][NextDialog]_vars

NextHandle == \E c \in HandleFrames : Syscall(c, QuietMemory)
SpecHandle == Init /\ [][NextHandle]_vars

----------------------------------------------------------------------------
(* Claims *)

\* the dispatcher has run at least once
Dispatched == dispatch.task \in Pids

\* unsigned order stated on the whole word: the signed order with the top bit flipped
FlipTop(w) == IF w < 0 THEN w - MinInt32 ELSE w + MinInt32
UnsignedGeq(a, b) == FlipTop(a) >= FlipTop(b)
\* base + length exceeds 2^32 - 1: length is above the complement of base
Wraps(base, length) == ~UnsignedGeq(-1 - base, length)

\* C1: syscall_validate_ptr(base, length) is true exactly when base is at or
\* above the watermark and base + length does not wrap; base = watermark is
\* accepted (when the range does not wrap) and base = watermark - 1 is rejected
\* for every length.
C1_ValidateExact ==
    vresult # "none" =>
        /\ (vresult = "valid") <=> (UnsignedGeq(vptr, Watermark) /\ ~Wraps(vptr, vsize))
        /\ vptr = Watermark /\ ~Wraps(vptr, vsize) => vresult = "valid"
        /\ vptr = Watermark - 1 => vresult = "invalid"

\* a range that starts high and wraps round to exactly the watermark is rejected
C1_Witness == vptr = -1 /\ vsize = Watermark + 1 /\ vresult = "invalid"

\* C2: an identifier that is negative, >= __SYSCALL_COUNT or unassigned gets
\* -ERR_FUNCTION_NOT_IMPLEMENTED and no handler runs, whatever the arguments.
C2_NotImplemented ==
    LET id == dispatch.syscall IN
    Dispatched /\ (id < 0 \/ id >= SYSCALL_COUNT \/ syscalls[id] = NULL) =>
        /\ dispatch.context.eax = -ERR_FUNCTION_NOT_IMPLEMENTED
        /\ dispatch.handler = NULL
        /\ outcome.calls = {}
        /\ outcome.uaccess = {}
        /\ outcome.handed = {}
        /\ outcome.returned

C2_Witness ==
    /\ Dispatched
    /\ dispatch.syscall = SYSCALL_COUNT
    /\ dispatch.context.ebx = Watermark
    /\ dispatch.context.eax = -ERR_FUNCTION_NOT_IMPLEMENTED

\* the user ranges a call hands to its handler: the pointer parameters of the
\* handler's signature with the size the handler is given or declares (a path or
\* channel name counts one byte)
UserPointers(c) ==
    LET name == SYSCALL_LIST[c.eax + 1]
        p1 == {"SYS_PROCESS_SET_CWD", "SYS_MESSAGING_BROADCAST", "SYS_MESSAGING_SUBSCRIBE",
               "SYS_MESSAGING_UNSUBSCRIBE", "SYS_FILESYSTEM_MKDIR", "SYS_FILESYSTEM_MKPIPE",
               "SYS_FILESYSTEM_LINK", "SYS_FILESYSTEM_UNLINK", "SYS_FILESYSTEM_RENAME"}
        p2 == {"SYS_FILESYSTEM_LINK", "SYS_FILESYSTEM_RENAME", "SYS_HANDLE_OPEN",
               "SYS_HANDLE_CONNECT"}
        m1 == {"SYS_MESSAGING_SEND", "SYS_MESSAGING_REQUEST", "SYS_MESSAGING_RECEIVE",
               "SYS_MESSAGING_RESPOND"}
        m2 == {"SYS_MESSAGING_BROADCAST", "SYS_MESSAGING_REQUEST", "SYS_MESSAGING_RESPOND",
               "SYS_HANDLE_SEND", "SYS_HANDLE_RECEIVE", "SYS_HANDLE_PAYLOAD"}
        i1 == {"SYS_SYSTEM_GET_TIME", "SYS_HANDLE_OPEN", "SYS_HANDLE_CONNECT"}
        i2 == {"SYS_PROCESS_WAIT", "SYS_SHARED_MEMORY_ACQUIRE", "SYS_HANDLE_ACCEPT"}
    IN  (IF name \in p1 THEN {<<c.ebx, 1>>} ELSE {})
        \cup (IF name \in p2 THEN {<<c.ecx, 1>>} ELSE {})
        \cup (IF name \in m1 THEN {<<c.ebx, SizeofMessage>>} ELSE {})
        \cup (IF name \in m2 THEN {<<c.ecx, SizeofMessage>>} ELSE {})
        \cup (IF name \in i1 THEN {<<c.ebx, SizeofInt>>} ELSE {})
        \cup (IF name \in i2 THEN {<<c.ecx, SizeofInt>>} ELSE {})
        \cup (IF name = "SYS_PROCESS_LAUNCH" THEN {<<c.ebx, SizeofLaunchpad>>} ELSE {})
        \cup (IF name = "SYS_PROCESS_GET_CWD" THEN {<<c.ebx, c.ecx>>} ELSE {})
        \cup (IF name = "SYS_SYSTEM_GET_INFO" THEN {<<c.ebx, SizeofSystemInfo>>} ELSE {})
        \cup (IF name = "SYS_SYSTEM_GET_STATUS" THEN {<<c.ebx, SizeofSystemStatus>>} ELSE {})
        \cup (IF name = "SYS_HANDLE_SELECT"
              THEN {<<c.ebx, MulU32(SizeofInt, c.edx)>>,
                    <<c.ecx, MulU32(SizeofSelectEvent, c.edx)>>, <<c.esi, SizeofInt>>}
              ELSE {})
        \cup (IF name \in {"SYS_HANDLE_READ", "SYS_HANDLE_WRITE"}
              THEN {<<c.ecx, c.edx>>, <<c.esi, SizeofInt>>} ELSE {})
        \cup (IF name = "SYS_HANDLE_TELL" THEN {<<c.edx, SizeofInt>>} ELSE {})
        \cup (IF name = "SYS_HANDLE_STAT" THEN {<<c.ecx, SizeofFileState>>} ELSE {})
        \cup (IF name = "SYS_HANDLE_CALL" THEN {<<c.edx, 1>>} ELSE {})

\* the latest call handed its handler a range that fails validation
BadPointerCall ==
    /\ Dispatched
    /\ dispatch.handler # NULL
    /\ \E r \in UserPointers([dispatch.context EXCEPT !.eax = dispatch.syscall]) :
          ~syscall_validate_ptr(r[1], r[2])

\* C3: every handler taking a user pointer returns the bad-address error on a
\* pointer that fails validation, before the memory is touched and before any
\* domain operation is invoked.
C3_PointersValidated ==
    BadPointerCall =>
        /\ outcome.returned
        /\ dispatch.context.eax \in {-ERR_BAD_ADDRESS, ERR_BAD_ADDRESS}
        /\ outcome.uaccess = {}
        /\ outcome.calls = {}

\* C4: launch with a launchpad that fails validation returns BadAddress, calls
\* task_launch never and leaves the task table as it was.
C4_LaunchBadAddress ==
    [][ (/\ dispatch'.task \in Pids
         /\ dispatch'.syscall = SYS_PROCESS_LAUNCH
         /\ ~syscall_validate_ptr(dispatch'.context.ebx, SizeofLaunchpad))
        => (/\ dispatch'.context.eax = -ERR_BAD_ADDRESS
            /\ outcome'.calls = {}
            /\ tasks' = tasks) ]_vars

C4_Witness ==
    /\ Dispatched
    /\ dispatch.syscall = SYS_PROCESS_LAUNCH
    /\ dispatch.context.ebx = Watermark - 1
    /\ dispatch.context.eax = -ERR_BAD_ADDRESS
    /\ \E t \in Pids : tasks[t].state = "Free"

\* C5: every error a handler of syscalls.c raises reaches the dispatcher as a
\* negative result word, the handle syscalls' address-validation failures
\* included.
C5_ErrorsNegative ==
    Dispatched /\ outcome.returned /\ outcome.failed /\ outcome.calls = {} =>
        dispatch.context.eax < 0

----------------------------------------------------------------------------
(* Claims on the shared-memory registry *)

\* the step just taken is a call of syscall id by the task that was running
Called(id) == step' = "syscall" /\ dispatch'.syscall = id /\ dispatch'.task = running

\* a region id that was allocated and is no longer in the registry
Reclaimed(id) == id \in DOMAIN shmNet /\ id \notin DOMAIN regions

\* the count of every region ever allocated is 1 + acquires - releases, and
\* the id is in the registry exactly while that is above zero
CountsBalance ==
    \A id \in DOMAIN shmNet :
        IF id \in DOMAIN regions
        THEN regions[id].refcount = 1 + shmNet[id] /\ regions[id].refcount > 0
        ELSE 1 + shmNet[id] = 0

C8_RefcountCoversAttached ==
    [][ /\ \A id \in DOMAIN regions' :
              regions'[id].refcount >=
                  Cardinality({t \in Pids : \E m \in aspace'[t] : m.region = id})
        /\ \A id \in DOMAIN shmZeroed' : shmZeroed'[id] <= 1
        /\ (/\ Called(SYS_SHARED_MEMORY_RELEASE)
            /\ running \notin Attached(dispatch'.context.ebx))
           => (/\ dispatch'.context.eax < 0
               /\ regions' = regions) ]_vars

\* region 0 was reclaimed once; region 1 is attached to both tasks, one of which
\* terminated region 0's last mapping; a task not attached to region 1 has just
\* been refused its release
C8_Witness ==
    /\ 0 \in DOMAIN shmZeroed /\ shmZeroed[0] = 1
    /\ 1 \in DOMAIN regions
    /\ step = "syscall"
    /\ dispatch.syscall = SYS_SHARED_MEMORY_RELEASE
    /\ dispatch.context.ebx = 1
    /\ dispatch.task \notin Attached(1)
    /\ Attached(1) # {}
    /\ dispatch.context.eax = -ERR_INVALID_STATE

----------------------------------------------------------------------------
(* Claims on request / respond *)

\* the correlation id the respond just made carried
Carried == ReadMsg(dispatch'.mem, dispatch'.context.ebx).corr

\* the tasks the step just taken took out of their wait
Resumed == {u \in Pids : tasks[u].state = "Blocked" /\ tasks'[u].state # "Blocked"}

\* C9: a respond carrying correlation id c resumes only the task that was
\* allocated c and is waiting on it, leaves every other pending request pending
\* and its requester blocked, and no request is completed by two responds.
C9_RespondCorrelated ==
    [][ Called(SYS_MESSAGING_RESPOND) =>
          /\ \A u \in Resumed :
                /\ Carried \in DOMAIN reqlog
                /\ reqlog[Carried].requester = u
                /\ LatestOf(u) = Carried
          /\ \A d \in DOMAIN pending \ {Carried} :
                /\ d \in DOMAIN pending'
                /\ pending'[d] = pending[d]
                /\ tasks'[pending[d].requester] = tasks[pending[d].requester]
          /\ \A d \in DOMAIN reqlog' : reqlog'[d].responds <= 1 ]_vars

\* two requests were pending at once; the respond carrying the second id has
\* resumed its requester and the first is still pending, its requester blocked
C9_Witness ==
    /\ step = "syscall"
    /\ dispatch.syscall = SYS_MESSAGING_RESPOND
    /\ ReadMsg(dispatch.mem, dispatch.context.ebx).corr = 1
    /\ DOMAIN reqlog = {0, 1}
    /\ reqlog[1].responds = 1
    /\ reqlog[0].responds = 0
    /\ reqlog[0].requester # reqlog[1].requester
    /\ 0 \in DOMAIN pending
    /\ tasks[reqlog[0].requester].state = "Blocked"
    /\ tasks[reqlog[1].requester].state = "Ready"

\* task t is blocked in a request that has a timeout
WaitsWithTimeout(t) ==
    /\ tasks[t].state = "Blocked"
    /\ tasks[t].wait.kind = "request"
    /\ LatestOf(t) \in DOMAIN reqlog
    /\ reqlog[LatestOf(t)].timeout > 0

\* the step just taken returned task t from the request it was blocked in
RequestReturned(t) ==
    /\ step' = "resume"
    /\ dispatch'.task = t
    /\ dispatch'.syscall = SYS_MESSAGING_REQUEST

\* C10: a request with timeout T > 0 that no respond completed returns
\* -ERR_TIMEOUT, at a tick no earlier than its issue tick plus T; and a task
\* blocked in such a request does return.
C10_TimeoutReturns ==
    /\ [][ \A t \in Pids :
              RequestReturned(t) /\ reqlog[LatestOf(t)].responds = 0 =>
                 /\ reqlog[LatestOf(t)].timeout > 0
                 /\ dispatch'.context.eax = -ERR_TIMEOUT
                 /\ ticks' >= reqlog[LatestOf(t)].issued + reqlog[LatestOf(t)].timeout ]_vars
    /\ \A t \in Pids : WaitsWithTimeout(t) ~> InUserMode(t)

\* a request with timeout 2 issued at tick 0 has returned -ERR_TIMEOUT at tick 2,
\* no respond having completed it
C10_Witness ==
    /\ step = "resume"
    /\ dispatch.syscall = SYS_MESSAGING_REQUEST
    /\ dispatch.context.eax = -ERR_TIMEOUT
    /\ dispatch.context.edx = 2
    /\ reqlog[LatestOf(dispatch.task)].responds = 0
    /\ reqlog[LatestOf(dispatch.task)].issued = 0
    /\ ticks = 2

\* C11: a respond whose carried correlation id has no pending request (it
\* timed out, was completed, or was never allocated) wakes no task, adds no
\* message to any mailbox, writes no result buffer, leaves the pending table
\* alone and returns success to the responder.
C11_StaleRespondNoOp ==
    [][ (Called(SYS_MESSAGING_RESPOND) /\ Carried \notin DOMAIN pending) =>
          /\ tasks' = tasks
          /\ mailbox' = mailbox
          /\ umem' = umem
          /\ pending' = pending
          /\ outcome'.returned
          /\ dispatch'.context.eax = ERR_SUCCESS ]_vars

\* request 0 timed out at tick 2 and a respond carrying 0 has just come late,
\* while request 1 is still pending and its requester still blocked
C11_Witness ==
    /\ step = "syscall"
    /\ dispatch.syscall = SYS_MESSAGING_RESPOND
    /\ ReadMsg(dispatch.mem, dispatch.context.ebx).corr = 0
    /\ DOMAIN reqlog = {0, 1}
    /\ reqlog[0].timeout = 2 /\ reqlog[0].responds = 0
    /\ ticks = 2
    /\ DOMAIN pending = {1}
    /\ tasks[reqlog[1].requester].state = "Blocked"
    /\ dispatch.context.eax = ERR_SUCCESS

----------------------------------------------------------------------------
\* the task a resumed call belongs to, and the pid a call names
Returning(id) == step' = "resume" /\ dispatch'.syscall = id
Target == dispatch'.context.ebx

\* a task asleep whose deadline is still ahead
Asleep(t) ==
    /\ t \in Pids
    /\ tasks[t].state = "Blocked"
    /\ tasks[t].wait.kind = "sleep"
    /\ ticks < tasks[t].wait.until

----------------------------------------------------------------------------
\* a wait call that blocked returns
WaitReturns == Returning(SYS_PROCESS_WAIT)

\* a wait call returns the exit code of a Zombie: at once, or after it blocked
WaitYields ==
    \/ /\ Called(SYS_PROCESS_WAIT) /\ outcome'.returned /\ ~outcome'.failed
    \/ /\ WaitReturns /\ tasks[Target].state = "Zombie"

\* the value yielded is the code the target's exit or cancel recorded
YieldsExitCode ==
    WaitYields =>
        /\ tasks[Target].state = "Zombie"
        /\ dispatch'.context.ecx \in DOMAIN umem'[running']
        /\ umem'[running'][dispatch'.context.ecx] = exitlog[Target]

\* a Zombie stays in the table until the last task blocked in wait on it has
\* observed its exit code; until then no launch reuses its id
NotReapedEarly ==
    \A p \in Pids :
        (tasks[p].state = "Zombie" /\ tasks'[p].state # "Zombie") =>
            /\ WaitYields
            /\ Target = p
            /\ WaitersOf(p) \ {running'} = {}
            /\ tasks'[p].state = "Free"

----------------------------------------------------------------------------
----------------------------------------------------------------------------
\* the pid names no task: outside the table, never created, or reaped
Absent(pid) == pid \notin Pids \/ tasks[pid].state = "Free"

\* C19: cancel, wakeup and wait on a pid that names no task return NotFound
\* and change no task, mailbox, pending request, address space or user memory.
C19_UnknownPidNotFound ==
    [][ \A id \in {SYS_PROCESS_CANCEL, SYS_PROCESS_WAKEUP, SYS_PROCESS_WAIT} :
          (Called(id) /\ Absent(Target)) =>
              /\ outcome'.returned
              /\ dispatch'.context.eax = -ERR_NOT_FOUND
              /\ UNCHANGED domainVars ]_vars

\* a call on the id of a reaped task (an exit code was observed, the slot is
\* free again) has returned NotFound
C19_Witness ==
    /\ step = "syscall"
    /\ dispatch.syscall \in {SYS_PROCESS_CANCEL, SYS_PROCESS_WAKEUP, SYS_PROCESS_WAIT}
    /\ dispatch.context.ebx \in Pids
    /\ tasks[dispatch.context.ebx].state = "Free"
    /\ dispatch.context.eax = -ERR_NOT_FOUND
    /\ \E w \in Pids : umem[w] # << >>

----------------------------------------------------------------------------
\* the message the latest send or broadcast call carried
Broadcast == Event(running, ReadMsg(dispatch'.mem, dispatch'.context.ecx))

\* C12: a broadcast on a channel appends exactly one copy of the message to
\* the mailbox of every task whose subscribe to that channel was not undone by
\* an unsubscribe, and leaves every other mailbox as it was.
C12_BroadcastToSubscribers ==
    [][ Called(SYS_MESSAGING_BROADCAST) =>
          /\ outcome'.returned
          /\ dispatch'.context.eax = ERR_SUCCESS
          /\ \A u \in Pids :
                mailbox'[u] = IF <<u, ChannelAt(Target)>> \in members
                              THEN Append(mailbox[u], Broadcast)
                              ELSE mailbox[u] ]_vars

\* a broadcast reached a subscriber and not a task that had subscribed, got an
\* earlier broadcast and left the channel
C12_Witness ==
    /\ step = "syscall"
    /\ dispatch.syscall = SYS_MESSAGING_BROADCAST
    /\ \E u, v \in Pids :
          /\ <<u, "net">> \in members
          /\ mailbox[u] # << >>
          /\ <<v, "net">> \notin members
          /\ gotlog[v] # << >>
          /\ mailbox[v] = << >>

----------------------------------------------------------------------------
\* the messages of a queue that task s sent
From(q, s) == LET Sent(m) == m.from = s IN SelectSeq(q, Sent)

\* C13: for every sender and every live recipient, the messages the sender
\* sent to the recipient (by send or broadcast) are, in send order, the ones
\* the recipient's receive calls returned followed by the ones still queued
\* in its mailbox: none is lost, none overtakes another.
C13_MailboxFifo ==
    \A r \in Pids : \A t \in Pids :
        Live(r) => From(sentlog[r], t) = From(gotlog[r], t) \o From(mailbox[r], t)

\* the recipient has received two different messages of one sender, and a
\* message of another sender in between
C13_Witness ==
    /\ Len(gotlog[Receiver]) = 3
    /\ gotlog[Receiver][1].from = gotlog[Receiver][3].from
    /\ gotlog[Receiver][1].corr # gotlog[Receiver][3].corr
    /\ gotlog[Receiver][2].from # gotlog[Receiver][1].from

----------------------------------------------------------------------------
\* a task inside a receive call that blocked
InReceive(t) == tasks[t].insys /\ tasks[t].wait.kind = "receive"

\* C14: a task blocked in receive has an empty mailbox and leaves the Blocked
\* state only when a message arrives for it, or a wakeup or cancel names it; a
\* message arriving makes it Ready at once, and its receive then returns the
\* oldest message of the mailbox; send and broadcast return to a sender that
\* is still Ready; a receiver with a message is eventually resumed.
C14_BlockingReceive ==
    /\ [][ /\ \A t \in Pids :
                (InReceive(t) /\ tasks[t].state = "Blocked") =>
                    /\ mailbox[t] = << >>
                    /\ mailbox'[t] # << >> => tasks'[t].state = "Ready"
                    /\ tasks'[t].state # "Blocked" =>
                          \/ mailbox'[t] # << >>
                          \/ /\ Called(SYS_PROCESS_WAKEUP) \/ Called(SYS_PROCESS_CANCEL)
                             /\ Target = t
           /\ (Returning(SYS_MESSAGING_RECEIVE) /\ mailbox[running'] # << >>) =>
                    /\ dispatch'.context.eax = ERR_SUCCESS
                    /\ umem'[running'][Target] = Head(mailbox[running'])
                    /\ mailbox'[running'] = Tail(mailbox[running'])
           /\ (Called(SYS_MESSAGING_SEND) \/ Called(SYS_MESSAGING_BROADCAST)) =>
                    /\ outcome'.returned
                    /\ InUserMode(running)' ]_vars
    /\ \A t \in Pids : (InReceive(t) /\ mailbox[t] # << >>) ~> ~InReceive(t)

\* a receive that blocked has returned the oldest of two pending messages
C14_Witness ==
    /\ step = "resume"
    /\ dispatch.syscall = SYS_MESSAGING_RECEIVE
    /\ dispatch.context.eax = ERR_SUCCESS
    /\ mailbox[running] # << >>
    /\ umem[running][dispatch.context.ebx] = gotlog[running][Len(gotlog[running])]

----------------------------------------------------------------------------
\* after the step task t is in none of the wait structures: sleep queue,
\* waiter lists, pending-request table, receivers
Unqueued(t) ==
    /\ tasks'[t].wait = NoWait
    /\ ~tasks'[t].insys
    /\ t \notin DOMAIN sleepdue'
    /\ \A p \in Pids : t \notin WaitersOf(p)'
    /\ \A c \in DOMAIN pending' : pending'[c].requester # t

----------------------------------------------------------------------------
\* no page of an address space is covered by two mappings
NoOverlap ==
    \A t \in Pids : \A m, n \in aspace[t] :
        m # n => PageRange(m.base, m.count) \cap PageRange(n.base, n.count) = {}

\* the call must be rejected: a zero count, a map over a mapped page, an unmap
\* of a range with an unmapped page
MustReject ==
    LET c == dispatch'.context
        as == aspace[running]
    IN  \/ /\ Called(SYS_PROCESS_MAP)
           /\ c.ecx = 0 \/ PageRange(c.ebx, c.ecx) \cap UsedPages(as) # {}
        \/ /\ Called(SYS_PROCESS_UNMAP)
           /\ c.ecx = 0 \/ ~(PageRange(c.ebx, c.ecx) \subseteq UsedPages(as))
        \/ /\ Called(SYS_PROCESS_ALLOC)
           /\ c.ebx = 0
        \/ /\ Called(SYS_PROCESS_FREE)
           /\ c.ecx = 0

\* C20: the mappings of an address space never overlap, and a map or alloc
\* over an existing mapping, an unmap of a range not fully mapped and every
\* call with a zero count return an error and leave the address space as it
\* was.
C20_AllOrNothing ==
    /\ []NoOverlap
    /\ [][ MustReject => (dispatch'.context.eax < 0 /\ aspace' = aspace) ]_vars

----------------------------------------------------------------------------
\* C21: a free with a zero count, or of a range not fully covered by memory
\* from alloc, returns an error to its caller, as unmap does for a range it
\* rejects.
C21_FreeReportsFailure ==
    [][ (/\ Called(SYS_PROCESS_FREE)
         /\ ~Covered(aspace[running], dispatch'.context.ebx, dispatch'.context.ecx,
                     {Alloced}))
        => (outcome'.returned /\ dispatch'.context.eax < 0) ]_vars

----------------------------------------------------------------------------
\* the range of length bytes at base lies at or above the watermark and does
\* not wrap
InUserSpace(base, length) == UnsignedGeq(base, Watermark) /\ ~Wraps(base, length)

\* w \div k on unsigned words, for k a power of two
UnsignedDiv(w, k) ==
    IF w >= 0 THEN w \div k ELSE (w - MinInt32) \div k + (MaxInt32 \div k) + 1

\* every byte of an array of count elements of elem bytes at base lies at or
\* above the watermark and the array does not wrap: count (unsigned) is at most
\* the bytes from base to the top of the address space, divided by elem
ArrayInUserSpace(base, elem, count) ==
    /\ UnsignedGeq(base, Watermark)
    /\ count >= 0
    /\ count <= UnsignedDiv(-1 - base, elem)

\* C22: select returns the bad-address error and does not invoke the handle
\* table's select unless the handles array, the events array (both of count
\* elements) and the selected word lie wholly in user space, for every count.
C22_SelectValidatesArrays ==
    [][ (/\ Called(SYS_HANDLE_SELECT)
         /\ ~(/\ ArrayInUserSpace(dispatch'.context.ebx, SizeofInt, dispatch'.context.edx)
              /\ ArrayInUserSpace(dispatch'.context.ecx, SizeofSelectEvent,
                                  dispatch'.context.edx)
              /\ InUserSpace(dispatch'.context.esi, SizeofInt)))
        => (/\ dispatch'.context.eax \in {ERR_BAD_ADDRESS, -ERR_BAD_ADDRESS}
            /\ outcome'.calls = {}) ]_vars

----------------------------------------------------------------------------
\* a read or write whose data buffer or length-output pointer is not in user
\* space
BadTransfer ==
    /\ Called(SYS_HANDLE_READ) \/ Called(SYS_HANDLE_WRITE)
    /\ \/ ~InUserSpace(dispatch'.context.ecx, dispatch'.context.edx)
       \/ ~InUserSpace(dispatch'.context.esi, SizeofInt)

\* C23: a read or write whose buffer or length-output pointer fails validation
\* returns the bad-address error, delegates nothing to the handle table and
\* writes nothing out; the handle table is called only when both pass.
C23_TransferValidated ==
    [][ BadTransfer =>
          /\ outcome'.returned
          /\ dispatch'.context.eax = ERR_BAD_ADDRESS
          /\ outcome'.calls = {}
          /\ outcome'.handed = {}
          /\ UNCHANGED domainVars ]_vars

\* a read with a good buffer and a bad length-output pointer was refused
C23_Witness ==
    /\ step = "syscall"
    /\ dispatch.syscall = SYS_HANDLE_READ
    /\ InUserSpace(dispatch.context.ecx, dispatch.context.edx)
    /\ ~InUserSpace(dispatch.context.esi, SizeofInt)
    /\ dispatch.context.eax = ERR_BAD_ADDRESS
    /\ outcome.calls = {}

----------------------------------------------------------------------------
\* the ids open in each task's handle table, with their cursors
Tables == [t \in Pids |-> tasks[t].handles]

\* the call installs a handle: open, connect or accept returning success
Installs ==
    /\ Called(SYS_HANDLE_OPEN) \/ Called(SYS_HANDLE_CONNECT) \/ Called(SYS_HANDLE_ACCEPT)
    /\ dispatch'.context.eax = ERR_SUCCESS

\* where the installing call writes the new id
InstalledAt ==
    IF dispatch'.syscall = SYS_HANDLE_ACCEPT
    THEN dispatch'.context.ecx ELSE dispatch'.context.ebx

\* the call operates on an id that is not open in the caller's table
OnClosedId ==
    /\ \E id \in {SYS_HANDLE_CLOSE, SYS_HANDLE_READ, SYS_HANDLE_WRITE,
                    SYS_HANDLE_SEEK, SYS_HANDLE_TELL, SYS_HANDLE_STAT} : Called(id)
    /\ dispatch'.context.ebx \notin HandleIds(running)

----------------------------------------------------------------------------
\* the failure lines of the latest dispatch: the lines that name the syscall
FailureLines == {i \in DOMAIN dispatch.log : dispatch.log[i][1] = "returned"}

\* C25: once the dispatcher has returned, the result word of the context is the
\* handler's return value, or -ERR_FUNCTION_NOT_IMPLEMENTED when there is no
\* handler, and one failure line is logged exactly when the identifier is from
\* SYS_HANDLE_OPEN on and the result is not success, or below SYS_HANDLE_OPEN
\* and the result is negative; otherwise none is.
C25_LoggingDiagnostic ==
    (Dispatched /\ outcome.returned) =>
        /\ dispatch.context.eax = IF dispatch.handler = NULL
                                  THEN -ERR_FUNCTION_NOT_IMPLEMENTED ELSE outcome.value
        /\ Cardinality(FailureLines) =
              IF \/ dispatch.syscall >= SYS_HANDLE_OPEN /\ dispatch.context.eax # ERR_SUCCESS
                 \/ dispatch.syscall < SYS_HANDLE_OPEN /\ dispatch.context.eax < 0
              THEN 1 ELSE 0

\* a handle syscall returned a positive error and its failure line was logged
C25_Witness ==
    /\ Dispatched
    /\ dispatch.syscall = SYS_HANDLE_OPEN
    /\ dispatch.handler = "sys_handle_open"
    /\ dispatch.context.eax = ERR_BAD_ADDRESS
    /\ dispatch.log = << <<"returned", SYS_HANDLE_OPEN>> >>

\* C27: every failure line the dispatcher logs reads syscall_names at an index
\* inside [0, __SYSCALL_COUNT).
C27_NamesIndexInRange ==
    Dispatched =>
        \A i \in FailureLines :
            dispatch.log[i][2] >= 0 /\ dispatch.log[i][2] < SYSCALL_COUNT

----------------------------------------------------------------------------
\* a cancel or wakeup call is inside its ATOMIC block
InSection == section.task # NoTask

\* C26: while a cancel or wakeup call is inside its ATOMIC block the pid it
\* looked up still names the same task and the only step taken is the call's
\* own completion; and when the call returns, whatever the pid and whatever the
\* result of task_cancel or task_wakeup, the atomic depth is the one the call
\* found when it entered.  Outside a section the depth is zero.
C26_SectionReleased ==
    /\ [](InSection => task_getbyid(section.frame.ebx) = section.found)
    /\ [](~InSection => atomic = 0)
    /\ [][ InSection =>
             /\ step' = "syscall"
             /\ dispatch'.task = section.task
             /\ dispatch'.syscall = section.frame.eax
             /\ running' = running
             /\ outcome'.returned
             /\ ~InSection'
             /\ atomic' = section.depth ]_vars

\* a cancel of a pid that names no task went through the section and returned
\* its error with the section left
C26_Witness ==
    /\ step = "syscall"
    /\ dispatch.syscall = SYS_PROCESS_CANCEL
    /\ dispatch.context.ebx = MaxTasks
    /\ dispatch.context.eax = -ERR_NOT_FOUND
    /\ ~InSection
    /\ atomic = 0
    /\ \E t \in Pids : tasks[t].state = "Zombie"
    /\ \E t \in Pids : tasks[t].state = "Blocked"

\* C28: show and close leave the attached dialog as it is; a layout applies
\* the pending close and then the pending show, so that afterwards a dialog is
\* visible exactly if a show was pending, or a dialog was attached and no
\* close was pending, and the dialog shown is the pending one if there was one.
C28_DialogDeferred ==
    /\ [][ uicall'.op \in {"show", "close"} =>
             /\ layer'._dialog = layer._dialog
             /\ layer'.attached = layer.attached ]_vars
    /\ [][ uicall'.op = "layout" =>
             /\ layer'._dialog # {} <=>
                   \/ layer._shouldShow # {}
                   \/ layer._dialog # {} /\ ~layer._shouldClose
             /\ layer._shouldShow # {} => layer'._dialog = layer._shouldShow
             /\ layer'.attached = {"child"} \cup layer'._dialog ]_vars

\* a layout found a close and a show pending on a shown dialog, and the dialog
\* attached now is the one the show named
C28_Witness ==
    /\ uicall.op = "layout"
    /\ uicall.applied = {"close", "show"}
    /\ layer._dialog = {"dialog2"}
    /\ layer.attached = {"child", "dialog2"}

\* C29: _shouldClose is set only while a dialog is attached, no call
\* dereferences an empty _dialog, paint and event reach the dialog only when
\* there is one, and after a layout neither a close nor a show is pending.
C29_CloseNeedsDialog ==
    /\ [](layer._shouldClose => layer._dialog # {})
    /\ [](~uicall.deref)
    /\ [][ uicall'.op = "layout" =>
             ~layer'._shouldClose /\ layer'._shouldShow = {} ]_vars

\* a layout applied a pending close: the dialog is gone and nothing is pending
C29_Witness ==
    /\ uicall.op = "layout"
    /\ uicall.applied = {"close"}
    /\ layer._dialog = {}
    /\ ~layer._shouldClose
    /\ layer._shouldShow = {}
    /\ uicall.reached = {"child"}

=============================================================================
